---- MODULE Spec2Model ----
(***************************************************************************)
(* Model of the shift scheduler of src/services/scheduler.ts:               *)
(* getFullWeeksRange, generateSchedule and pickWorkers.                     *)
(*                                                                          *)
(* A JavaScript Date at local midnight is modelled by its day number: the  *)
(* number of days since 1970-01-01 (a Thursday).  The getters getFullYear,  *)
(* getMonth, getDate and getDay convert the day number back to calendar     *)
(* fields, and the constructor new Date(y, m, d) normalises month and day   *)
(* overflow the way the Date constructor does.                              *)
(***************************************************************************)
EXTENDS Integers, Sequences, FiniteSets, TLC

VARIABLES
  employees,      \* input: the worker pool, a sequence of Employee records
  year,           \* input: target year
  month,          \* input: target month, 0-based
  config,         \* input: ShiftConfig (requirements, distributeDayShiftsToEither)
  history,        \* input: HistoricalContext or NoHistory
  manualHistory,  \* input: ManualHistoryInput (function of date keys) or NoManual
  pc,             \* position of the call
  days,           \* const days = getFullWeeksRange(year, month)
  dayIndex,       \* loop variable of the main loop (0-based)
  schedule,       \* DailySchedule[] built so far
  workHistory,    \* Map id -> Set of date keys
  lastShiftType,  \* Map id -> "DAY" | "NIGHT" | "null"
  consecutiveDays,\* Map id -> number
  stats,          \* Map id -> [day, night, total]
  finalStats,     \* Record id -> EmployeeStats of the returned version
  randomSwaps,    \* number of sorts so far whose outcome was decided by Math.random
  file,           \* input of parsePastScheduleCSV: the text of the file, line by line
  parse,          \* locals of parsePastScheduleCSV (lines, dayCols, ..., i)
  versions,       \* App: the list of ScheduleVersion, newest first
  selectedVersionId, \* App: the id of the selected version or "null"
  tab             \* App: the tab shown, "workers" | "rules" | "schedule"

vars == <<employees, year, month, config, history, manualHistory, pc, days,
          dayIndex, schedule, workHistory, lastShiftType, consecutiveDays,
          stats, finalStats, randomSwaps, file, parse, versions,
          selectedVersionId, tab>>

\* ------------------------------------------------------------------------
\* Bounds of the model
\* ------------------------------------------------------------------------
YearLo == 2020
YearHi == 2030
RangeYearLo == 1971
RangeYearHi == 2101
MaxRandomSwaps == 1

\* ------------------------------------------------------------------------
\* Calendar arithmetic (the Date object)
\* ------------------------------------------------------------------------
IsLeap(y) == (y % 4 = 0 /\ y % 100 # 0) \/ (y % 400 = 0)

\* number of days of month m (0-based) of year y
MonthLength(y, m) ==
  IF m = 1 THEN (IF IsLeap(y) THEN 29 ELSE 28)
  ELSE IF m \in {3, 5, 8, 10} THEN 30 ELSE 31

LeapsBefore(y) == ((y - 1) \div 4) - ((y - 1) \div 100) + ((y - 1) \div 400)

\* day number of January 1st of year y
YearStart(y) == 365 * (y - 1970) + LeapsBefore(y) - LeapsBefore(1970)

\* days of year y before the 1st of month m (0-based)
DaysBeforeMonth(y, m) ==
  <<0, 31, 59, 90, 120, 151, 181, 212, 243, 273, 304, 334>>[m + 1]
    + (IF m > 1 /\ IsLeap(y) THEN 1 ELSE 0)

\* new Date(y, m, d): m may be 12 and d may be 0 or negative (overflow is
\* normalised by the constructor)
NewDate(y, m, d) ==
  YearStart(y + (m \div 12)) + DaysBeforeMonth(y + (m \div 12), m % 12) + (d - 1)

\* the year holding day number date: 1970 + date \div 365 or the year before
\* (the leap days since 1970 are fewer than 365)
getFullYear(date) ==
  LET y0 == 1970 + (date \div 365)
  IN IF YearStart(y0) <= date THEN y0 ELSE y0 - 1

\* the month holding day number date: no month is longer than 31 days, so it
\* is month (day of year) \div 31 or the next one
getMonth(date) ==
  LET y == getFullYear(date)
      dayOfYear == date - YearStart(y)
      m0 == dayOfYear \div 31
  IN IF m0 < 11 /\ dayOfYear >= DaysBeforeMonth(y, m0 + 1) THEN m0 + 1 ELSE m0

getDate(date) == date - NewDate(getFullYear(date), getMonth(date), 1) + 1

\* 0 = Sunday .. 6 = Saturday; day number 0 is a Thursday
getDay(date) == (date + 4) % 7

\* the key taken from the UTC date (toISOString) in a time zone east of
\* Greenwich: local midnight is still the previous day in UTC
formatDateKey_UTC(date) ==
  <<getFullYear(date - 1), getMonth(date - 1) + 1, getDate(date - 1)>>

\* formatDateKey: the YYYY-MM-DD string, as the triple of its three fields
formatDateKey(date) == <<getFullYear(date), getMonth(date) + 1, getDate(date)>>

RECURSIVE RangeLoop(_, _, _)
RangeLoop(current, endDate, acc) ==
  IF current <= endDate
    THEN RangeLoop(current + 1, endDate, Append(acc, current))
    ELSE acc

\* getFullWeeksRange with the forward step to Saturday off by one
getFullWeeksRange_EndOffByOne(y, m) ==
  LET startOfMonth == NewDate(y, m, 1)
      startDate == startOfMonth - getDay(startOfMonth)
      endOfMonth == NewDate(y, m + 1, 0)
      endDate == endOfMonth + (7 - getDay(endOfMonth))
  IN RangeLoop(startDate, endDate, <<>>)

getFullWeeksRange(y, m) ==
  LET startOfMonth == NewDate(y, m, 1)
      startDayOfWeek == getDay(startOfMonth)
      startDate == startOfMonth - startDayOfWeek
      endOfMonth == NewDate(y, m + 1, 0)
      endDayOfWeek == getDay(endOfMonth)
      endDate == endOfMonth + (6 - endDayOfWeek)
  IN RangeLoop(startDate, endDate, <<>>)

\* ------------------------------------------------------------------------
\* Array helpers
\* ------------------------------------------------------------------------
Includes(list, x) == \E i \in 1..Len(list) : list[i] = x

\* the headcount ignored
Slice_All(list, count) == list

\* one place short: slice(0, count - 1)
Slice_OneShort(list, count) ==
  SubSeq(list, 1, (IF count < Len(list) THEN count ELSE Len(list)) - 1)

Slice(list, count) == SubSeq(list, 1, IF count < Len(list) THEN count ELSE Len(list))

Ids(pool) == {pool[i].id : i \in 1..Len(pool)}

Max2(a, b) == IF a >= b THEN a ELSE b

\* ------------------------------------------------------------------------
\* pickWorkers: the candidate filter (the five hard constraints)
\* ------------------------------------------------------------------------
MaxConsecutive == 5

\* the exclusion list ignored
NotExcluded_Ignored(e, excludeIds) == TRUE

NotExcluded(e, excludeIds) == ~Includes(excludeIds, e.id)

\* the preference looked at for the day slot only
PreferenceAllows_DayOnly(e, shiftType) ==
  ~(shiftType = "DAY" /\ e.preference = "NIGHT_ONLY")

PreferenceAllows(e, shiftType) ==
  /\ ~(shiftType = "DAY" /\ e.preference = "NIGHT_ONLY")
  /\ ~(shiftType = "NIGHT" /\ e.preference = "DAY_ONLY")

\* the days off compared with the day of the month instead of the weekday
IsAvailable_DayOfMonth(e, date) == getDate(date) \notin e.daysOff

IsAvailable(e, date) == getDay(date) \notin e.daysOff

\* the cap tested with > instead of >=
BelowMaxConsecutive_OffByOne(e, consec) == ~(consec[e.id] > MaxConsecutive)

BelowMaxConsecutive(e, consec) == ~(consec[e.id] >= MaxConsecutive)

\* the adjacency rule looking up the date itself instead of the day before
NoDayAfterNight_SameDate(e, date, shiftType, wHist, lastShift) ==
  IF shiftType = "DAY"
    THEN ~(formatDateKey(date) \in wHist[e.id] /\ lastShift[e.id] = "NIGHT")
    ELSE TRUE

NoDayAfterNight(e, date, shiftType, wHist, lastShift) ==
  IF shiftType = "DAY"
    THEN LET yKey == formatDateKey(date - 1)
             workedYesterday == yKey \in wHist[e.id]
         IN ~(workedYesterday /\ lastShift[e.id] = "NIGHT")
    ELSE TRUE

\* the filter without the cap on consecutive days
IsCandidate_NoCap(e, date, shiftType, wHist, lastShift, consec, excludeIds) ==
  /\ NotExcluded(e, excludeIds)
  /\ PreferenceAllows(e, shiftType)
  /\ IsAvailable(e, date)
  /\ NoDayAfterNight(e, date, shiftType, wHist, lastShift)

IsCandidate(e, date, shiftType, wHist, lastShift, consec, excludeIds) ==
  /\ NotExcluded(e, excludeIds)
  /\ PreferenceAllows(e, shiftType)
  /\ IsAvailable(e, date)
  /\ BelowMaxConsecutive(e, consec)
  /\ NoDayAfterNight(e, date, shiftType, wHist, lastShift)

Candidates(pool, date, shiftType, wHist, lastShift, consec, excludeIds) ==
  SelectSeq(pool, LAMBDA e :
    IsCandidate(e, date, shiftType, wHist, lastShift, consec, excludeIds))

\* ------------------------------------------------------------------------
\* pickWorkers: the comparator of candidates.sort
\* ------------------------------------------------------------------------
EitherBonus == 2

\* a.targetShifts || 0 (an absent quota is the quota 0)
TargetOf(e) == e.targetShifts

\* the quota test left out of the ranking
MetTarget_Never(e, st) == FALSE

MetTarget(e, st) == TargetOf(e) > 0 /\ st[e.id].total >= TargetOf(e)

\* getPacingDiff, multiplied by 5 * totalDays to stay in the integers:
\* currentTotal - empTarget * (max(1, currentDayNum) / totalDays)
PacingDiff5T(empTarget, currentTotal, currentDayNum, totalDays) ==
  IF empTarget <= 0 THEN 0
  ELSE 5 * totalDays * currentTotal - 5 * empTarget * Max2(1, currentDayNum)

\* The code computes expected = empTarget * (max(1, currentDayNum) / totalDays)
\* and currentTotal - expected in doubles.  Only where the exact difference is
\* -0.8 or 0.8 can the rounding change the outcome of the comparisons with
\* -0.8 and 0.8, and that is only possible in a month of 30 days.  The two
\* tables list the cases <<empTarget, max(1, currentDayNum), currentTotal>>,
\* for quotas and totals up to 31, where the double difference lies just
\* below -0.8, and just above 0.8 (IEEE 754 binary64, round to nearest).
DoubleBelow ==
  { <<6, 24, 4>>, <<7, 12, 2>>, <<9, 26, 7>>, <<11, 24, 8>>, <<12, 12, 4>>,
    <<12, 27, 10>>, <<14, 6, 2>>, <<16, 24, 12>>, <<17, 12, 6>>, <<18, 13, 7>>,
    <<18, 23, 13>>, <<18, 28, 16>>, <<19, 6, 3>>, <<21, 14, 9>>, <<21, 24, 16>>,
    <<22, 12, 8>>, <<22, 27, 19>>, <<24, 6, 4>>, <<24, 16, 12>>, <<24, 26, 20>>,
    <<26, 24, 20>>, <<27, 12, 10>>, <<28, 3, 2>>, <<28, 18, 16>>, <<29, 6, 5>>,
    <<31, 24, 24>> }

DoubleAbove ==
  { <<3, 22, 3>>, <<6, 11, 3>>, <<6, 21, 5>>, <<12, 18, 8>>, <<12, 28, 12>>,
    <<16, 21, 12>>, <<17, 18, 11>>, <<18, 17, 11>>, <<18, 22, 14>>, <<18, 27, 17>>,
    <<21, 16, 12>>, <<21, 26, 19>>, <<22, 18, 14>>, <<24, 9, 8>>, <<24, 14, 12>>,
    <<24, 19, 16>>, <<24, 29, 24>>, <<26, 21, 19>>, <<27, 18, 17>>, <<27, 28, 26>>,
    <<28, 27, 26>> }

\* -1 or 1 where the double difference lies beyond the exact -0.8 or 0.8
PacingRounding(empTarget, currentTotal, currentDayNum, totalDays) ==
  IF totalDays # 30 THEN 0
  ELSE IF <<empTarget, Max2(1, currentDayNum), currentTotal>> \in DoubleBelow THEN -1
  ELSE IF <<empTarget, Max2(1, currentDayNum), currentTotal>> \in DoubleAbove THEN 1
  ELSE 0

\* getCategory: 1 urgent (diff < -0.8), 3 cool down (diff > 0.8), 2 otherwise
getCategory(diff5T, rounding, hasTarget, totalDays) ==
  IF ~hasTarget THEN 2
  ELSE IF diff5T < -(4 * totalDays) \/ (diff5T = -(4 * totalDays) /\ rounding < 0) THEN 1
  ELSE IF diff5T > 4 * totalDays \/ (diff5T = 4 * totalDays /\ rounding > 0) THEN 3
  ELSE 2

CategoryOf(e, st, currentDayNum, totalDays) ==
  getCategory(PacingDiff5T(TargetOf(e), st[e.id].total, currentDayNum, totalDays),
              PacingRounding(TargetOf(e), st[e.id].total, currentDayNum, totalDays),
              TargetOf(e) > 0, totalDays)

ScoreOf(e, st, shiftType, prioritizeEitherForDay) ==
  IF prioritizeEitherForDay /\ shiftType = "DAY" /\ e.preference = "EITHER"
    THEN st[e.id].total - EitherBonus
    ELSE st[e.id].total

RatioOf(e, st, shiftType) ==
  IF shiftType = "DAY" THEN st[e.id].day ELSE st[e.id].night

\* The comparator (a, b) => number: the tier (1 to 5) whose return statement
\* is taken, and the set of signs it can return.  Tiers 1 to 4 return one
\* sign, tier 5 returns Math.random() - 0.5.
Sign(n) == IF n < 0 THEN -1 ELSE IF n > 0 THEN 1 ELSE 0

\* the comparator without the preference balance: equal scores go to
\* Math.random
Compare_NoBalance(a, b, st, currentDayNum, totalDays, shiftType, prioritizeEitherForDay) ==
  LET metA == MetTarget(a, st)
      metB == MetTarget(b, st)
      catA == CategoryOf(a, st, currentDayNum, totalDays)
      catB == CategoryOf(b, st, currentDayNum, totalDays)
      scoreA == ScoreOf(a, st, shiftType, prioritizeEitherForDay)
      scoreB == ScoreOf(b, st, shiftType, prioritizeEitherForDay)
  IN IF metA # metB THEN [tier |-> 1, signs |-> {IF metA THEN 1 ELSE -1}]
     ELSE IF catA # catB THEN [tier |-> 2, signs |-> {Sign(catA - catB)}]
     ELSE IF scoreA # scoreB THEN [tier |-> 3, signs |-> {Sign(scoreA - scoreB)}]
     ELSE [tier |-> 5, signs |-> {-1, 0, 1}]

Compare(a, b, st, currentDayNum, totalDays, shiftType, prioritizeEitherForDay) ==
  LET metA == MetTarget(a, st)
      metB == MetTarget(b, st)
      catA == CategoryOf(a, st, currentDayNum, totalDays)
      catB == CategoryOf(b, st, currentDayNum, totalDays)
      scoreA == ScoreOf(a, st, shiftType, prioritizeEitherForDay)
      scoreB == ScoreOf(b, st, shiftType, prioritizeEitherForDay)
  IN IF metA # metB THEN [tier |-> 1, signs |-> {IF metA THEN 1 ELSE -1}]
     ELSE IF catA # catB THEN [tier |-> 2, signs |-> {Sign(catA - catB)}]
     ELSE IF scoreA # scoreB THEN [tier |-> 3, signs |-> {Sign(scoreA - scoreB)}]
     ELSE IF a.preference = "EITHER" /\ b.preference = "EITHER"
       THEN [tier |-> 4,
             signs |-> {Sign(RatioOf(a, st, shiftType) - RatioOf(b, st, shiftType))}]
     ELSE [tier |-> 5, signs |-> {-1, 0, 1}]

\* ------------------------------------------------------------------------
\* pickWorkers: the outcomes of candidates.sort and of slice(0, count)
\* ------------------------------------------------------------------------
\* Tiers 1 to 3 of the comparator order the candidates consistently (a total
\* preorder).  Tier 4 and the random tier only separate candidates that are
\* equal on tiers 1 to 3.  A merge/insertion sort keeps the order of tiers 1
\* to 3 whatever the lower tiers answer; inside a group of candidates equal on
\* tiers 1 to 3 the order is the stable order of tier 4 when every comparison
\* of the group is made by tier 4, and is left to the random answers (any
\* order) as soon as one pair of the group is compared by Math.random.
\*
\* cmp[i][j] is the comparator on candidates i and j.  g is a permutation of
\* the candidates' indices: g[1], g[2], ... is an order the sort can return.
\* With stableTies the random answers are taken to keep the order of the pool.
SameRank(cmp, i, j) == i = j \/ cmp[i][j].tier >= 4

RandomGroup(cmp, i) ==
  \E k, l \in DOMAIN cmp :
    /\ k # l
    /\ SameRank(cmp, i, k)
    /\ SameRank(cmp, i, l)
    /\ cmp[k][l].tier = 5

SortedBy(g, cmp, stableTies) ==
  \A i, j \in DOMAIN cmp :
    i < j =>
      IF ~SameRank(cmp, g[i], g[j]) THEN cmp[g[i]][g[j]].signs = {-1}
      ELSE IF RandomGroup(cmp, g[i]) THEN (stableTies => g[i] < g[j])
      ELSE \/ cmp[g[i]][g[j]].signs = {-1}
           \/ (cmp[g[i]][g[j]].signs = {0} /\ g[i] < g[j])

IdsOf(list) == [i \in 1..Len(list) |-> list[i].id]

\* The outcomes of pickWorkers: the lists of ids it can return, each with
\* random = FALSE when it is the list returned if no random answer reorders
\* the pool.
pickWorkers(pool, count, date, currentDayNum, totalDays, shiftType, wHist, lastShift, consec, st, excludeIds, prioritizeEitherForDay) ==
  LET candidates == Candidates(pool, date, shiftType, wHist, lastShift, consec, excludeIds)
      n == Len(candidates)
      cmp == [i \in 1..n |-> [j \in 1..n |->
                Compare(candidates[i], candidates[j], st, currentDayNum, totalDays,
                        shiftType, prioritizeEitherForDay)]]
      Result(g) == IdsOf(Slice([i \in 1..n |-> candidates[g[i]]], count))
      orders == {g \in Permutations(1..n) : SortedBy(g, cmp, FALSE)}
      stable == {Result(g) : g \in {h \in orders : SortedBy(h, cmp, TRUE)}}
  IN {[ids |-> Result(g), random |-> Result(g) \notin stable] : g \in orders}

\* ------------------------------------------------------------------------
\* generateSchedule: per-date values
\* ------------------------------------------------------------------------
TotalDaysInMonth(y, m) == getDate(NewDate(y, m + 1, 0))

\* the target month tested without an upper side
IsTargetMonth_FromMonthOn(dayDate, y, m) == getMonth(dayDate) >= m /\ getFullYear(dayDate) = y

IsTargetMonth(dayDate, y, m) == getMonth(dayDate) = m /\ getFullYear(dayDate) = y

PacingDayNum(dayDate, m, totalDaysInMonth) ==
  IF getMonth(dayDate) > m THEN totalDaysInMonth
  ELSE IF getMonth(dayDate) < m THEN 0
  ELSE getDate(dayDate)

\* config.requirements[dayOfWeek] || { day: 1, night: 1 }
Reqs(cfg, dayOfWeek) ==
  IF dayOfWeek \in DOMAIN cfg.requirements
    THEN cfg.requirements[dayOfWeek]
    ELSE [day |-> 1, night |-> 1]

\* manualHistory ? manualHistory[dateKey] : undefined, is it defined
HasManualEntry(manual, dateKey) == manual.present /\ dateKey \in DOMAIN manual.entries

\* the manual day list cut to one worker
ManualDayWorkers_Truncated(manualEntry) == Slice(manualEntry.dayShift, 1)

\* dayWorkers = manualEntry.dayShift; nightWorkers = manualEntry.nightShift
ManualDayWorkers(manualEntry) == manualEntry.dayShift

ManualNightWorkers(manualEntry) == manualEntry.nightShift

\* the night workers of the history never carried over
ForbiddenDayWorkers_None(idx, hist) == <<>>

ForbiddenDayWorkers(idx, hist) ==
  IF idx = 0 /\ hist.present THEN hist.lastDayNightShiftIds ELSE <<>>

\* ------------------------------------------------------------------------
\* generateSchedule: the update of the running state after a date
\* ------------------------------------------------------------------------
WorkedToday(id, dayWorkers, nightWorkers) == Includes(dayWorkers \o nightWorkers, id)

NextWorkHistory(wHist, id, dateKey, workedToday) ==
  IF workedToday THEN wHist[id] \cup {dateKey} ELSE wHist[id]

\* the counter kept over a date without a shift
NextConsecutive_NoReset(consec, id, workedToday) ==
  IF workedToday THEN consec[id] + 1 ELSE consec[id]

NextConsecutive(consec, id, workedToday) ==
  IF workedToday THEN consec[id] + 1 ELSE 0

NextLastShift(id, dayWorkers, workedToday) ==
  IF workedToday
    THEN (IF Includes(dayWorkers, id) THEN "DAY" ELSE "NIGHT")
    ELSE "null"

\* the counts incremented on the padding dates too
NextStats_OnEveryDate(st, id, dayWorkers, workedToday, isTargetMonth) ==
  IF workedToday
    THEN [total |-> st[id].total + 1,
          day |-> IF Includes(dayWorkers, id) THEN st[id].day + 1 ELSE st[id].day,
          night |-> IF Includes(dayWorkers, id) THEN st[id].night ELSE st[id].night + 1]
    ELSE st[id]

NextStats(st, id, dayWorkers, workedToday, isTargetMonth) ==
  IF workedToday /\ isTargetMonth
    THEN [total |-> st[id].total + 1,
          day |-> IF Includes(dayWorkers, id) THEN st[id].day + 1 ELSE st[id].day,
          night |-> IF Includes(dayWorkers, id) THEN st[id].night ELSE st[id].night + 1]
    ELSE st[id]

\* the record of the history stored as it is: stats.set(e.id, hStats)
SeedIsHistoryRecord_NoCopy(hist, id) == hist.present /\ id \in DOMAIN hist.accumulatedStats

\* line 171, stats.set(e.id, { ...hStats }): the running record of a worker
\* is a copy of the record of the history, never that record itself
SeedIsHistoryRecord(hist, id) == FALSE

\* the history once the running stats st are written (s.total += 1, ...): a
\* record that is also the running record of a worker takes the new counts
HistoryAfter(hist, st) ==
  IF hist.present
    THEN [hist EXCEPT !.accumulatedStats =
            [id \in DOMAIN @ |->
               IF id \in DOMAIN st /\ SeedIsHistoryRecord(hist, id) THEN st[id] ELSE @[id]]]
    ELSE hist

\* lines 249-286: employees.forEach(...) and schedule.push(...)
FinishDate(dayWorkers, nightWorkers) ==
  LET dayDate == days[dayIndex + 1]
      dateKey == formatDateKey(dayDate)
      isTargetMonth == IsTargetMonth(dayDate, year, month)
  IN /\ workHistory' = [id \in Ids(employees) |->
          NextWorkHistory(workHistory, id, dateKey, WorkedToday(id, dayWorkers, nightWorkers))]
     /\ consecutiveDays' = [id \in Ids(employees) |->
          NextConsecutive(consecutiveDays, id, WorkedToday(id, dayWorkers, nightWorkers))]
     /\ lastShiftType' = [id \in Ids(employees) |->
          NextLastShift(id, dayWorkers, WorkedToday(id, dayWorkers, nightWorkers))]
     /\ stats' = [id \in Ids(employees) |->
          NextStats(stats, id, dayWorkers, WorkedToday(id, dayWorkers, nightWorkers), isTargetMonth)]
     /\ history' = HistoryAfter(history, stats')
     /\ schedule' = Append(schedule, [date |-> dateKey, dayShift |-> dayWorkers,
                                      nightShift |-> nightWorkers,
                                      isPadding |-> ~isTargetMonth])
     /\ dayIndex' = dayIndex + 1

\* ------------------------------------------------------------------------
\* generateSchedule: the final statistics (lines 288-322)
\* ------------------------------------------------------------------------
\* the night list forgotten
Worked_DayOnly(daySch, id) == Includes(daySch.dayShift, id)

Worked(daySch, id) == Includes(daySch.dayShift, id) \/ Includes(daySch.nightShift, id)

\* padding dates counted too
CountsInMonth_WithPadding(daySch, id) == Worked(daySch, id)

CountsInMonth(daySch, id) == ~daySch.isPadding /\ Worked(daySch, id)

\* the day count kept for the workers that are not on the night list
CountsAsDay_NotOnNight(daySch, id) ==
  Includes(daySch.dayShift, id) /\ ~Includes(daySch.nightShift, id)

\* if (daySch.dayShift.includes(e.id)) monthDay++; else monthNight++;
CountsAsDay(daySch, id) == Includes(daySch.dayShift, id)

\* the night count taken from the night list instead of the else branch
CountsAsNight_FromNightList(daySch, id) == Includes(daySch.nightShift, id)

CountsAsNight(daySch, id) == ~Includes(daySch.dayShift, id)

\* schedule.forEach for one worker, from entry i on; acc holds the five locals
RECURSIVE StatsScan(_, _, _, _)
StatsScan(sched, id, i, acc) ==
  IF i > Len(sched) THEN acc
  ELSE
    LET daySch == sched[i]
        worked == Worked(daySch, id)
        cur == IF worked THEN acc.currentStreak + 1 ELSE 0
        counted == CountsInMonth(daySch, id)
    IN StatsScan(sched, id, i + 1,
         [currentStreak |-> cur,
          maxStreak |-> IF worked THEN Max2(acc.maxStreak, cur) ELSE acc.maxStreak,
          monthTotal |-> IF counted THEN acc.monthTotal + 1 ELSE acc.monthTotal,
          monthDay |-> IF counted /\ CountsAsDay(daySch, id)
                         THEN acc.monthDay + 1 ELSE acc.monthDay,
          monthNight |-> IF counted /\ CountsAsNight(daySch, id)
                           THEN acc.monthNight + 1 ELSE acc.monthNight])

FinalStatsOf(sched, id) ==
  LET r == StatsScan(sched, id, 1,
             [currentStreak |-> 0, maxStreak |-> 0, monthTotal |-> 0,
              monthDay |-> 0, monthNight |-> 0])
  IN [totalShifts |-> r.monthTotal, dayShifts |-> r.monthDay,
      nightShifts |-> r.monthNight, longestStreak |-> r.maxStreak]

\* ------------------------------------------------------------------------
\* Inputs of generateSchedule
\* ------------------------------------------------------------------------
Emp(id, preference, daysOff, targetShifts) ==
  [id |-> id, preference |-> preference, daysOff |-> daysOff, targetShifts |-> targetShifts]

Pools ==
  { <<>>,
    <<Emp("w1", "EITHER", {}, 0), Emp("w2", "EITHER", {}, 0)>>,
    <<Emp("w1", "EITHER", {0}, 3), Emp("w2", "EITHER", {6}, 0), Emp("w3", "EITHER", {}, 10)>>,
    <<Emp("w1", "EITHER", {0}, 0), Emp("w2", "DAY_ONLY", {}, 4), Emp("w3", "NIGHT_ONLY", {}, 0)>> }

\* <<year, month>> pairs: February 2024 (leap, padding on both sides), July
\* 2024 (the 1st is a Monday), December 2024 (the 1st is a Sunday, trailing
\* padding in January 2025), January 2025 (leading padding in December 2024)
FocusMonths == {<<2024, 1>>, <<2024, 6>>, <<2024, 11>>, <<2025, 0>>}

\* pools for a month of 30 days: the first worker, free from Wednesday to
\* Saturday, has 2 shifts of its quota of 14 on the 6th of November 2024; the
\* second one is behind a quota of 25, or has no quota and is free on
\* Wednesday, Thursday and Saturday, or on the same weekdays as the first
PacingPools ==
  { <<Emp("w1", "EITHER", {0, 1, 2}, 14), Emp("w2", "EITHER", {}, 25)>>,
    <<Emp("w1", "EITHER", {0, 1, 2}, 14), Emp("w2", "EITHER", {0, 1, 2, 5}, 0)>>,
    <<Emp("w1", "EITHER", {0, 1, 2}, 14), Emp("w2", "EITHER", {0, 1, 2}, 0)>> }

\* requirement tables: empty (every weekday takes the default 1/1), the
\* table of the application's initial state, and a sparse one with a 0
Requirements ==
  << <<>>,
     [w \in 0..6 |-> IF w \in {0, 6} THEN [day |-> 1, night |-> 1]
                     ELSE IF w \in {4, 5} THEN [day |-> 2, night |-> 2]
                     ELSE [day |-> 2, night |-> 1]],
     [w \in {0, 3} |-> IF w = 0 THEN [day |-> 0, night |-> 1] ELSE [day |-> 2, night |-> 2]] >>

Configs ==
  { [requirements |-> Requirements[1], distributeDayShiftsToEither |-> FALSE],
    [requirements |-> Requirements[2], distributeDayShiftsToEither |-> FALSE],
    [requirements |-> Requirements[2], distributeDayShiftsToEither |-> TRUE],
    [requirements |-> Requirements[3], distributeDayShiftsToEither |-> TRUE] }

NoHistory == [present |-> FALSE]

\* the id of the k-th worker of the pool (the last one when the pool is shorter)
Nth(pool, k) == pool[IF k < Len(pool) THEN k ELSE Len(pool)].id

Histories(pool) ==
  IF pool = <<>>
    THEN {NoHistory,
          [present |-> TRUE, accumulatedStats |-> <<>>, consecutiveDaysEnding |-> <<>>,
           lastDayNightShiftIds |-> <<>>]}
    ELSE
      {NoHistory,
       [present |-> TRUE,
        accumulatedStats |-> [id \in Ids(pool) |-> [day |-> 0, night |-> 0, total |-> 0]],
        consecutiveDaysEnding |-> [id \in Ids(pool) |-> IF id = Nth(pool, 1) THEN 5 ELSE 0],
        lastDayNightShiftIds |-> <<Nth(pool, 2)>>],
       [present |-> TRUE,
        accumulatedStats |-> [id \in {Nth(pool, 1)} |-> [day |-> 2, night |-> 1, total |-> 3]],
        consecutiveDaysEnding |-> [id \in {Nth(pool, 2)} |-> 2],
        lastDayNightShiftIds |-> <<Nth(pool, 1), Nth(pool, 2)>>]}

NoManual == [present |-> FALSE]

\* the date keys of the n dates ending at day number last
KeysEnding(last, n) == {formatDateKey(last - i) : i \in 0..(n - 1)}

Manuals(pool, y, m) ==
  IF pool = <<>>
    THEN {NoManual,
          [present |-> TRUE,
           entries |-> [k \in KeysEnding(NewDate(y, m, 0), 7) |->
                          [dayShift |-> <<>>, nightShift |-> <<>>]]]}
    ELSE
      {NoManual,
       \* the seven dates of ManualHistoryModal: the last week of the previous month
       [present |-> TRUE,
        entries |-> [k \in KeysEnding(NewDate(y, m, 0), 7) |->
                       [dayShift |-> <<Nth(pool, 1)>>, nightShift |-> <<Nth(pool, 2)>>]]],
       \* a week inside the month, the first worker on both shifts
       [present |-> TRUE,
        entries |-> [k \in KeysEnding(NewDate(y, m, 8), 7) |->
                       [dayShift |-> <<Nth(pool, 1), Nth(pool, 2)>>,
                        nightShift |-> <<Nth(pool, 1)>>]]],
       \* one date inside the month, one worker twice in a list and on both shifts
       [present |-> TRUE,
        entries |-> [k \in KeysEnding(NewDate(y, m, 2), 1) |->
                       [dayShift |-> <<Nth(pool, 1)>>,
                        nightShift |-> <<Nth(pool, 1), Nth(pool, 2), Nth(pool, 1)>>]]]}

AllMonths == {<<y, m>> : y \in YearLo..YearHi, m \in 0..11}

\* App.tsx lines 444, 473-474: the useState initial values
NoVersions ==
  /\ versions = <<>>
  /\ selectedVersionId = "null"
  /\ tab = "workers"

\* the running state before the call
Idle ==
  /\ pc = "call"
  /\ days = <<>>
  /\ dayIndex = 0
  /\ schedule = <<>>
  /\ workHistory = <<>>
  /\ lastShiftType = <<>>
  /\ consecutiveDays = <<>>
  /\ stats = <<>>
  /\ finalStats = <<>>
  /\ randomSwaps = 0
  /\ file = <<>>
  /\ parse = <<>>
  /\ NoVersions

Init ==
  /\ \/ \E ym \in FocusMonths :
          /\ year = ym[1]
          /\ month = ym[2]
          /\ employees \in Pools
          /\ config \in Configs
          /\ history \in Histories(employees)
          /\ manualHistory \in Manuals(employees, year, month)
     \/ \E ym \in AllMonths :
          /\ year = ym[1]
          /\ month = ym[2]
          /\ employees = <<Emp("w1", "EITHER", {}, 0), Emp("w2", "EITHER", {}, 0)>>
          /\ config = [requirements |-> <<>>, distributeDayShiftsToEither |-> FALSE]
          /\ history = NoHistory
          /\ manualHistory = NoManual
     \/ /\ year = 2024
        /\ month = 10
        /\ employees \in PacingPools
        /\ config \in {c \in Configs : c.requirements = <<>>}
        /\ history = NoHistory
        /\ manualHistory = NoManual
  /\ Idle

\* ------------------------------------------------------------------------
\* generateSchedule: the steps of a call
\* ------------------------------------------------------------------------
\* the default left out: a worker without entry is given no counts (written -1)
SeedStats_NoDefault(hist, id) ==
  IF hist.present
    THEN (IF id \in DOMAIN hist.accumulatedStats
            THEN hist.accumulatedStats[id]
            ELSE [day |-> -1, night |-> -1, total |-> -1])
    ELSE [day |-> 0, night |-> 0, total |-> 0]

SeedStats(hist, id) ==
  IF hist.present /\ id \in DOMAIN hist.accumulatedStats
    THEN hist.accumulatedStats[id]
    ELSE [day |-> 0, night |-> 0, total |-> 0]

SeedConsecutive(hist, id) ==
  IF hist.present /\ id \in DOMAIN hist.consecutiveDaysEnding
    THEN hist.consecutiveDaysEnding[id]
    ELSE 0

\* lines 157-179
Setup ==
  /\ pc = "call"
  /\ days' = getFullWeeksRange(year, month)
  /\ schedule' = <<>>
  /\ dayIndex' = 0
  /\ workHistory' = [id \in Ids(employees) |-> {}]
  /\ stats' = [id \in Ids(employees) |-> SeedStats(history, id)]
  /\ consecutiveDays' = [id \in Ids(employees) |-> SeedConsecutive(history, id)]
  /\ lastShiftType' = [id \in Ids(employees) |-> "null"]
  /\ pc' = "loop"
  /\ UNCHANGED <<versions, selectedVersionId, tab, file, parse, employees, year, month, config, history, manualHistory,
                 finalStats, randomSwaps>>

\* lines 181-205 and 249-286: a date with a manual entry
UseManualEntry ==
  /\ pc = "loop"
  /\ dayIndex < Len(days)
  /\ LET dateKey == formatDateKey(days[dayIndex + 1])
     IN /\ HasManualEntry(manualHistory, dateKey)
        /\ FinishDate(ManualDayWorkers(manualHistory.entries[dateKey]),
                      ManualNightWorkers(manualHistory.entries[dateKey]))
  /\ UNCHANGED <<versions, selectedVersionId, tab, file, parse, employees, year, month, config, manualHistory, pc,
                 days, finalStats, randomSwaps>>

\* the outcomes of pickWorkers for a slot of the current date
PickForSlot(count, shiftType, excludeIds, prioritizeEitherForDay) ==
  LET dayDate == days[dayIndex + 1]
      totalDaysInMonth == TotalDaysInMonth(year, month)
  IN pickWorkers(employees, count, dayDate,
                 PacingDayNum(dayDate, month, totalDaysInMonth), totalDaysInMonth,
                 shiftType, workHistory, lastShiftType, consecutiveDays, stats,
                 excludeIds, prioritizeEitherForDay)

\* lines 181-286: a date without a manual entry
GenerateDate ==
  /\ pc = "loop"
  /\ dayIndex < Len(days)
  /\ LET dayDate == days[dayIndex + 1]
         reqs == Reqs(config, getDay(dayDate))
         forbiddenDayWorkers == ForbiddenDayWorkers(dayIndex, history)
     IN /\ ~HasManualEntry(manualHistory, formatDateKey(dayDate))
        /\ \E dayPick \in PickForSlot(reqs.day, "DAY", forbiddenDayWorkers,
                                      config.distributeDayShiftsToEither) :
             \E nightPick \in PickForSlot(reqs.night, "NIGHT", dayPick.ids, FALSE) :
               /\ randomSwaps' = randomSwaps + (IF dayPick.random THEN 1 ELSE 0)
                                             + (IF nightPick.random THEN 1 ELSE 0)
               /\ randomSwaps' <= MaxRandomSwaps
               /\ FinishDate(dayPick.ids, nightPick.ids)
  /\ UNCHANGED <<versions, selectedVersionId, tab, file, parse, employees, year, month, config, manualHistory, pc,
                 days, finalStats>>

\* lines 288-332
ReturnVersion ==
  /\ pc = "loop"
  /\ dayIndex = Len(days)
  /\ finalStats' = [id \in Ids(employees) |-> FinalStatsOf(schedule, id)]
  /\ pc' = "done"
  /\ UNCHANGED <<versions, selectedVersionId, tab, file, parse, employees, year, month, config, history, manualHistory, days,
                 dayIndex, schedule, workHistory, lastShiftType, consecutiveDays,
                 stats, randomSwaps>>

Next == Setup \/ UseManualEntry \/ GenerateDate \/ ReturnVersion

Spec == Init /\ [][Next]_vars

\* ------------------------------------------------------------------------
\* getFullWeeksRange on its own: every month of RangeYearLo..RangeYearHi
\* ------------------------------------------------------------------------
InitRange ==
  /\ year \in RangeYearLo..RangeYearHi
  /\ month \in 0..11
  /\ employees = <<>>
  /\ config = [requirements |-> <<>>, distributeDayShiftsToEither |-> FALSE]
  /\ history = NoHistory
  /\ manualHistory = NoManual
  /\ pc = "range"
  /\ days = <<>>
  /\ dayIndex = 0
  /\ schedule = <<>>
  /\ workHistory = <<>>
  /\ lastShiftType = <<>>
  /\ consecutiveDays = <<>>
  /\ stats = <<>>
  /\ finalStats = <<>>
  /\ randomSwaps = 0
  /\ file = <<>>
  /\ parse = <<>>
  /\ NoVersions

CallRange ==
  /\ pc = "range"
  /\ days' = getFullWeeksRange(year, month)
  /\ pc' = "ranged"
  /\ UNCHANGED <<versions, selectedVersionId, tab, file, parse, employees, year, month, config, history, manualHistory, dayIndex,
                 schedule, workHistory, lastShiftType, consecutiveDays, stats,
                 finalStats, randomSwaps>>

NextRange == CallRange

SpecRange == InitRange /\ [][NextRange]_vars

\* ------------------------------------------------------------------------
\* parsePastScheduleCSV (lines 64-146)
\* ------------------------------------------------------------------------
\* A text is the sequence of its lines (text.split('\n')), a line the
\* sequence of its cells between commas, a cell a text written in quotes or
\* not, a text a sequence of words separated by blanks.  A word is its
\* letters in lower case and whether it is written with capitals.  Sequences
\* are indexed from 1: column c of the model is index c - 1 of the code.
Word(letters, capitals) == [letters |-> letters, capitals |-> capitals]

Cell(quoted, text) == [quoted |-> quoted, text |-> text]

toLowerCase(text) == [k \in DOMAIN text |-> Word(text[k].letters, FALSE)]

\* l.trim() is the empty string: one cell, without quotes and without words
IsBlank(line) == Len(line) = 1 /\ ~line[1].quoted /\ line[1].text = <<>>

\* the lines counted as they come, blank ones included
NonBlankLines_Unfiltered(text) == text

\* line 66: text.split('\n').map(l => l.trim()).filter(l => l)
NonBlankLines(text) == SelectSeq(text, LAMBDA l : ~IsBlank(l))

\* lower.includes(label), label a sequence of words
IncludesWords(lower, label) ==
  \E k \in 0..(Len(lower) - Len(label)) :
    \A j \in 1..Len(label) : lower[k + j].letters = label[j]

\* line 78
IsDayHeader(h) ==
  \/ IncludesWords(toLowerCase(h.text), <<"day", "shift", "worker">>)
  \/ IncludesWords(toLowerCase(h.text), <<"day", "worker">>)

\* line 79
IsNightHeader(h) ==
  \/ IncludesWords(toLowerCase(h.text), <<"night", "shift", "worker">>)
  \/ IncludesWords(toLowerCase(h.text), <<"night", "worker">>)

\* lines 76-80: the columns of the header, in order, pushed to dayCols
DayColsOf(headers) ==
  SelectSeq([c \in 1..Len(headers) |-> c], LAMBDA c : IsDayHeader(headers[c]))

\* lines 76-80: the columns of the header, in order, pushed to nightCols
NightColsOf(headers) ==
  SelectSeq([c \in 1..Len(headers) |-> c], LAMBDA c : IsNightHeader(headers[c]))

\* line 98, lines[i].match(/(".*?"|[^",\s]+)(?=\s*,|\s*$)/g): a cell in
\* quotes is matched whole; of a cell without quotes only the last word is
\* matched, the words before it being followed by a blank and not by a comma
\* or the end; a cell without quotes and without words gives no match
RECURSIVE MatchCells(_)
MatchCells(line) ==
  IF line = <<>> THEN <<>>
  ELSE LET c == Head(line)
           matched == IF c.quoted THEN <<c>>
                      ELSE IF c.text = <<>> THEN <<>>
                      ELSE <<Cell(FALSE, <<c.text[Len(c.text)]>>)>>
       IN matched \o MatchCells(Tail(line))

\* line 98: the matches, or lines[i].split(',') when there is no match
RowCells(line) == IF MatchCells(line) = <<>> THEN line ELSE MatchCells(line)

\* line 99: the texts of the cells, quotes and outer blanks removed
CleanCells(line) == [c \in DOMAIN RowCells(line) |-> RowCells(line)[c].text]

\* lines 91-95: <<id>> of the first worker of that name, <<>> for undefined
findId(pool, nameRaw) ==
  IF nameRaw = <<>> THEN <<>>
  ELSE LET found == SelectSeq(pool, LAMBDA e : toLowerCase(e.name) = toLowerCase(nameRaw))
       IN IF found = <<>> THEN <<>> ELSE <<found[1].id>>

\* lines 104-113 and 115-125: the ids found in the columns cols of a row, in
\* the order of the columns
RECURSIVE ResolveCols(_, _, _)
ResolveCols(pool, cols, cleanCells) ==
  IF cols = <<>> THEN <<>>
  ELSE (IF Head(cols) <= Len(cleanCells) THEN findId(pool, cleanCells[Head(cols)]) ELSE <<>>)
       \o ResolveCols(pool, Tail(cols), cleanCells)

\* the number of times id was pushed to list
Pushed(list, id) == Cardinality({k \in DOMAIN list : list[k] = id})

\* lines 64-68: fewer than two lines left, throw new Error("Invalid CSV format")
ParseFails ==
  /\ pc = "parse"
  /\ Len(NonBlankLines(file)) < 2
  /\ pc' = "failed"
  /\ UNCHANGED <<versions, selectedVersionId, tab, file, parse, employees, year, month, config, history, manualHistory,
                 days, dayIndex, schedule, workHistory, lastShiftType,
                 consecutiveDays, stats, finalStats, randomSwaps>>

\* lines 64-89: the header and the initial counts
ParseHeader ==
  /\ pc = "parse"
  /\ LET lines == NonBlankLines(file)
     IN /\ Len(lines) >= 2
        /\ parse' = [lines |-> lines,
                     dayCols |-> DayColsOf(lines[1]),
                     nightCols |-> NightColsOf(lines[1]),
                     accumulatedStats |->
                       [id \in Ids(employees) |-> [day |-> 0, night |-> 0, total |-> 0]],
                     consecutiveDays |-> [id \in Ids(employees) |-> 0],
                     lastDayNightShiftIds |-> <<>>,
                     i |-> 1]
  /\ pc' = "rows"
  /\ UNCHANGED <<versions, selectedVersionId, tab, file, employees, year, month, config, history, manualHistory,
                 days, dayIndex, schedule, workHistory, lastShiftType,
                 consecutiveDays, stats, finalStats, randomSwaps>>

\* lines 97-138: one turn of the loop over the data rows
ParseRow ==
  /\ pc = "rows"
  /\ parse.i < Len(parse.lines)
  /\ LET cleanCells == CleanCells(parse.lines[parse.i + 1])
         dayTodayIds == ResolveCols(employees, parse.dayCols, cleanCells)
         nightTodayIds == ResolveCols(employees, parse.nightCols, cleanCells)
         workedTodayIds == dayTodayIds \o nightTodayIds
     IN parse' =
          [parse EXCEPT
             !.accumulatedStats =
               [id \in DOMAIN @ |->
                  [day |-> @[id].day + Pushed(dayTodayIds, id),
                   night |-> @[id].night + Pushed(nightTodayIds, id),
                   total |-> @[id].total + Pushed(workedTodayIds, id)]],
             !.consecutiveDays =
               [id \in DOMAIN @ |-> IF Includes(workedTodayIds, id) THEN @[id] + 1 ELSE 0],
             !.lastDayNightShiftIds =
               IF parse.i = Len(parse.lines) - 1 THEN nightTodayIds ELSE @,
             !.i = @ + 1]
  /\ UNCHANGED <<versions, selectedVersionId, tab, file, employees, year, month, config, history, manualHistory, pc,
                 days, dayIndex, schedule, workHistory, lastShiftType,
                 consecutiveDays, stats, finalStats, randomSwaps>>

\* lines 140-145: the HistoricalContext is returned
ParseReturn ==
  /\ pc = "rows"
  /\ parse.i = Len(parse.lines)
  /\ pc' = "parsed"
  /\ UNCHANGED <<versions, selectedVersionId, tab, file, parse, employees, year, month, config, history, manualHistory,
                 days, dayIndex, schedule, workHistory, lastShiftType,
                 consecutiveDays, stats, finalStats, randomSwaps>>

\* ------------------------------------------------------------------------
\* Inputs of parsePastScheduleCSV
\* ------------------------------------------------------------------------
\* a worker of that name, without restrictions
Named(id, name) ==
  [id |-> id, name |-> name, preference |-> "EITHER", daysOff |-> {}, targetShifts |-> 0]

AnnLee == <<Word("ann", TRUE), Word("lee", TRUE)>>

ParsePools ==
  { <<Named("w1", AnnLee), Named("w2", <<Word("bob", TRUE)>>)>>,
    <<Named("w1", AnnLee), Named("w2", <<Word("bob", FALSE)>>),
      Named("w3", <<Word("lee", TRUE)>>)>> }

Quoted(text) == Cell(TRUE, text)

Plain(text) == Cell(FALSE, text)

\* a header cell: the words of the label followed by a number
Label(words) == [k \in 1..(Len(words) + 1) |->
                   IF k <= Len(words) THEN Word(words[k], TRUE) ELSE Word("1", FALSE)]

\* the header written by exportToCSV for two day workers and one night
\* worker, and a header in quotes with the labels of exportToExcel, the night
\* column first
Headers ==
  { <<Plain(<<Word("date", TRUE)>>), Plain(<<Word("is", TRUE), Word("padding", TRUE)>>),
      Plain(Label(<<"day", "shift", "worker">>)), Plain(Label(<<"day", "shift", "worker">>)),
      Plain(Label(<<"night", "shift", "worker">>))>>,
    <<Quoted(<<Word("date", TRUE)>>), Quoted(<<Word("is", TRUE), Word("padding", TRUE)>>),
      Quoted(Label(<<"night", "worker">>)), Quoted(Label(<<"day", "worker">>)),
      Quoted(Label(<<"day", "worker">>))>> }

DateCell == Plain(<<Word("2024-01-31", FALSE)>>)

PaddingCell == Plain(<<Word("no", TRUE)>>)

\* data rows: as exportToCSV writes them (every worker cell in quotes, an
\* empty place as ""), and as a spreadsheet program writes them back (quotes
\* only where needed, nothing for an empty place)
RowOptions ==
  { <<DateCell, PaddingCell, Quoted(AnnLee), Quoted(<<>>), Quoted(<<Word("bob", TRUE)>>)>>,
    <<DateCell, PaddingCell, Quoted(toLowerCase(AnnLee)), Quoted(<<Word("bob", TRUE)>>),
      Quoted(AnnLee)>>,
    <<DateCell, PaddingCell, Quoted(<<Word("bob", TRUE)>>), Quoted(<<Word("bob", TRUE)>>),
      Quoted(<<Word("eve", TRUE)>>)>>,
    <<DateCell, PaddingCell, Quoted(<<>>), Quoted(<<>>), Quoted(<<>>)>>,
    <<DateCell, PaddingCell, Quoted(<<Word("bob", TRUE)>>)>>,
    <<DateCell, PaddingCell, Plain(<<>>), Plain(<<Word("bob", TRUE)>>), Quoted(AnnLee)>>,
    <<DateCell, PaddingCell, Plain(AnnLee), Plain(<<Word("bob", TRUE)>>), Plain(<<>>)>>,
    <<Plain(<<>>), Plain(<<>>), Plain(<<>>), Plain(<<>>), Plain(<<>>)>> }

\* the largest number of data rows of a file
MaxDataRows == 3

BlankLine == <<Plain(<<>>)>>

\* the texts: empty and blank ones, a header alone, a header with up to
\* MaxDataRows data rows, and some with blank lines in between
Texts ==
  {<<BlankLine>>, <<BlankLine, BlankLine>>}
  \cup {<<h>> \o rows : h \in Headers,
                        rows \in UNION {[1..n -> RowOptions] : n \in 0..MaxDataRows}}
  \cup {<<BlankLine, h, BlankLine>> : h \in Headers}
  \cup {<<BlankLine, h, BlankLine, r, BlankLine>> : h \in Headers, r \in RowOptions}

InitParse ==
  /\ file \in Texts
  /\ employees \in ParsePools
  /\ pc = "parse"
  /\ parse = <<>>
  /\ year = 2024
  /\ month = 0
  /\ config = [requirements |-> <<>>, distributeDayShiftsToEither |-> FALSE]
  /\ history = NoHistory
  /\ manualHistory = NoManual
  /\ days = <<>>
  /\ dayIndex = 0
  /\ schedule = <<>>
  /\ workHistory = <<>>
  /\ lastShiftType = <<>>
  /\ consecutiveDays = <<>>
  /\ stats = <<>>
  /\ finalStats = <<>>
  /\ randomSwaps = 0
  /\ NoVersions

NextParse == ParseFails \/ ParseHeader \/ ParseRow \/ ParseReturn

SpecParse == InitParse /\ [][NextParse]_vars

\* ------------------------------------------------------------------------
\* The import of a file followed by a generation (App.tsx, lines 481-515 and
\* 550): handleFileUpload parses the file for the pool of the moment and
\* stores the result; a worker can be added to the pool before handleGenerate
\* calls generateSchedule with the stored history
\* ------------------------------------------------------------------------
\* the worker added after the import
NewWorker == Named("w4", <<Word("dan", TRUE)>>)

\* data rows of the imported files
ImportRows ==
  { <<DateCell, PaddingCell, Quoted(AnnLee), Quoted(<<>>), Quoted(<<Word("bob", TRUE)>>)>>,
    <<DateCell, PaddingCell, Quoted(<<Word("bob", TRUE)>>), Quoted(<<Word("bob", TRUE)>>),
      Quoted(<<Word("eve", TRUE)>>)>>,
    <<DateCell, PaddingCell, Quoted(<<>>), Quoted(<<>>), Quoted(<<>>)>> }

\* the largest number of data rows of an imported file
MaxImportRows == 2

ImportTexts ==
  {<<BlankLine>>}
  \cup {<<h>> \o rows : h \in Headers,
                        rows \in UNION {[1..n -> ImportRows] : n \in 0..MaxImportRows}}

\* the HistoricalContext returned by parsePastScheduleCSV (lines 140-145)
ParsedContext ==
  [present |-> TRUE,
   accumulatedStats |-> parse.accumulatedStats,
   consecutiveDaysEnding |-> parse.consecutiveDays,
   lastDayNightShiftIds |-> parse.lastDayNightShiftIds]

\* App.tsx lines 507-508: setImportedHistory(history)
SetImportedHistory ==
  /\ pc = "parsed"
  /\ history' = ParsedContext
  /\ pc' = "ready"
  /\ UNCHANGED <<versions, selectedVersionId, tab, file, parse, employees, year, month, config, manualHistory,
                 days, dayIndex, schedule, workHistory, lastShiftType,
                 consecutiveDays, stats, finalStats, randomSwaps>>

\* App.tsx line 550: onAdd={e => setEmployees([...employees, e])}
AddWorker ==
  /\ pc = "ready"
  /\ NewWorker.id \notin Ids(employees)
  /\ employees' = Append(employees, NewWorker)
  /\ UNCHANGED <<versions, selectedVersionId, tab, file, parse, pc, year, month, config, history, manualHistory,
                 days, dayIndex, schedule, workHistory, lastShiftType,
                 consecutiveDays, stats, finalStats, randomSwaps>>

\* App.tsx lines 485-492: handleGenerate calls generateSchedule
HandleGenerate ==
  /\ pc = "ready"
  /\ Len(employees) # 0
  /\ pc' = "call"
  /\ UNCHANGED <<versions, selectedVersionId, tab, file, parse, employees, year, month, config, history, manualHistory,
                 days, dayIndex, schedule, workHistory, lastShiftType,
                 consecutiveDays, stats, finalStats, randomSwaps>>

InitImport ==
  /\ file \in ImportTexts
  /\ employees \in ParsePools
  /\ pc = "parse"
  /\ parse = <<>>
  /\ year = 2024
  /\ month = 1
  /\ config = [requirements |-> <<>>, distributeDayShiftsToEither |-> FALSE]
  /\ history = NoHistory
  /\ manualHistory = NoManual
  /\ days = <<>>
  /\ dayIndex = 0
  /\ schedule = <<>>
  /\ workHistory = <<>>
  /\ lastShiftType = <<>>
  /\ consecutiveDays = <<>>
  /\ stats = <<>>
  /\ finalStats = <<>>
  /\ randomSwaps = 0
  /\ NoVersions

NextImport ==
  \/ ParseFails \/ ParseHeader \/ ParseRow \/ ParseReturn
  \/ SetImportedHistory \/ AddWorker \/ HandleGenerate
  \/ Setup \/ GenerateDate \/ ReturnVersion

SpecImport == InitImport /\ [][NextImport]_vars

\* ------------------------------------------------------------------------
\* handleManualAssign (types.ts, lines 529-543) on the version returned by
\* generateSchedule: schedule and finalStats are the schedule and the stats
\* of the displayed version
\* ------------------------------------------------------------------------
\* updated.schedule.findIndex(s => s.date === date), 0 for -1
FindIndex(sch, date) ==
  IF \E i \in DOMAIN sch : sch[i].date = date
    THEN CHOOSE i \in DOMAIN sch : sch[i].date = date /\ \A j \in 1..(i - 1) : sch[j].date # date
    ELSE 0

\* lines 534-535: the entry of the date with empId added to the list of shift
AssignedEntry(entry, shift, empId) ==
  IF shift = "DAY"
    THEN [entry EXCEPT !.dayShift = Append(@, empId)]
    ELSE [entry EXCEPT !.nightShift = Append(@, empId)]

\* lines 537-540: the stats of empId after an addition to a date of the month
AssignedStats(st, shift, empId) ==
  [st EXCEPT ![empId] =
     [@ EXCEPT !.totalShifts = @ + 1,
               !.dayShifts = IF shift = "DAY" THEN @ + 1 ELSE @,
               !.nightShifts = IF shift = "DAY" THEN @ ELSE @ + 1]]

\* ScheduleViewer (types.ts, lines 403-405): req.day - dayShift.length or
\* req.night - nightShift.length, the number of "Empty" buttons of the slot
Missing(cfg, dayOfWeek, entry, shift) ==
  IF shift = "DAY"
    THEN Reqs(cfg, dayOfWeek).day - Len(entry.dayShift)
    ELSE Reqs(cfg, dayOfWeek).night - Len(entry.nightShift)

\* lines 418-419, 430-431: the slot shows a button that opens the modal
SlotOffered(cfg, dayOfWeek, entry, shift) ==
  ~entry.isPadding /\ Missing(cfg, dayOfWeek, entry, shift) > 0

\* the modal (lines 482-483) lists every employee; a click calls
\* handleManualAssign with the date and shift of the slot that was offered.
\* The weekday is the one of the date the key was formatted from.
HandleManualAssign ==
  /\ pc = "done"
  /\ \E i \in DOMAIN schedule, shift \in {"DAY", "NIGHT"}, k \in DOMAIN employees :
       LET empId == employees[k].id
           idx == FindIndex(schedule, schedule[i].date)
       IN /\ SlotOffered(config, getDay(days[i]), schedule[i], shift)
          /\ idx > 0
          /\ schedule' = [schedule EXCEPT ![idx] = AssignedEntry(@, shift, empId)]
          /\ finalStats' = IF ~schedule[idx].isPadding
                             THEN AssignedStats(finalStats, shift, empId)
                             ELSE finalStats
  /\ UNCHANGED <<versions, selectedVersionId, tab, file, parse, employees, year, month, config, history, manualHistory, pc,
                 days, dayIndex, workHistory, lastShiftType, consecutiveDays, stats,
                 randomSwaps>>

\* pools too small for the default requirement of one worker per slot once
\* the cap on consecutive days is met: the version has empty slots
AssignPools ==
  { <<Emp("w1", "EITHER", {}, 0), Emp("w2", "EITHER", {}, 0)>>,
    <<Emp("w1", "EITHER", {}, 0), Emp("w2", "EITHER", {}, 0), Emp("w3", "EITHER", {}, 0)>> }

InitAssign ==
  /\ year = 2024
  /\ month = 1
  /\ employees \in AssignPools
  /\ config = [requirements |-> <<>>, distributeDayShiftsToEither |-> FALSE]
  /\ history = NoHistory
  /\ manualHistory = NoManual
  /\ Idle

NextAssign == Setup \/ GenerateDate \/ ReturnVersion \/ HandleManualAssign

SpecAssign == InitAssign /\ [][NextAssign]_vars

\* ------------------------------------------------------------------------
\* The simpler generator (src/unnamed/part_000): generateSchedule over the
\* dates of the month only, on the same running state.  Its entries have no
\* isPadding field and it takes no manual entries.
\* ------------------------------------------------------------------------
\* lines 13-21: the dates from the 1st while getMonth() is the month
getDaysInMonth(y, m) == [i \in 1..TotalDaysInMonth(y, m) |-> NewDate(y, m, i)]

\* lines 24-26, date.toISOString().split('T')[0]: the UTC date of the local
\* midnight, which is the day before in a time zone east of Greenwich and the
\* day itself elsewhere
SimpleFormatDateKey(date, east) ==
  IF east THEN formatDateKey_UTC(date) ELSE formatDateKey(date)

\* lines 329-338
SimpleNoDayAfterNight(e, date, shiftType, wHist, lastShift, east) ==
  IF shiftType = "DAY"
    THEN LET yKey == SimpleFormatDateKey(date - 1, east)
             workedYesterday == yKey \in wHist[e.id]
         IN ~(workedYesterday /\ lastShift[e.id] = "NIGHT")
    ELSE TRUE

\* lines 314-341
SimpleCandidates(pool, date, shiftType, wHist, lastShift, consec, excludeIds, east) ==
  SelectSeq(pool, LAMBDA e :
    /\ NotExcluded(e, excludeIds)
    /\ PreferenceAllows(e, shiftType)
    /\ IsAvailable(e, date)
    /\ BelowMaxConsecutive(e, consec)
    /\ SimpleNoDayAfterNight(e, date, shiftType, wHist, lastShift, east))

\* lines 344-371: the comparator, with the numbers the tiers have in the
\* richer one (3 the score, 4 the count of this shift type, 5 Math.random)
SimpleCompare(a, b, st, shiftType, prioritizeEitherForDay) ==
  LET scoreA == ScoreOf(a, st, shiftType, prioritizeEitherForDay)
      scoreB == ScoreOf(b, st, shiftType, prioritizeEitherForDay)
  IN IF scoreA # scoreB THEN [tier |-> 3, signs |-> {Sign(scoreA - scoreB)}]
     ELSE IF a.preference = "EITHER" /\ b.preference = "EITHER"
       THEN [tier |-> 4,
             signs |-> {Sign(RatioOf(a, st, shiftType) - RatioOf(b, st, shiftType))}]
     ELSE [tier |-> 5, signs |-> {-1, 0, 1}]

\* lines 302-374: the outcomes of pickWorkers
SimplePickWorkers(pool, count, date, shiftType, wHist, lastShift, consec, st, excludeIds, prioritizeEitherForDay, east) ==
  LET candidates == SimpleCandidates(pool, date, shiftType, wHist, lastShift, consec,
                                     excludeIds, east)
      n == Len(candidates)
      cmp == [i \in 1..n |-> [j \in 1..n |->
                SimpleCompare(candidates[i], candidates[j], st, shiftType,
                              prioritizeEitherForDay)]]
      Result(g) == IdsOf(Slice([i \in 1..n |-> candidates[g[i]]], count))
      orders == {g \in Permutations(1..n) : SortedBy(g, cmp, FALSE)}
      stable == {Result(g) : g \in {h \in orders : SortedBy(h, cmp, TRUE)}}
  IN {[ids |-> Result(g), random |-> Result(g) \notin stable] : g \in orders}

\* lines 266-280: days.forEach for one worker, from date i on
RECURSIVE SimpleStatsScan(_, _, _, _, _, _)
SimpleStatsScan(dates, sched, id, i, acc, east) ==
  IF i > Len(dates) THEN acc
  ELSE
    LET dKey == SimpleFormatDateKey(dates[i], east)
        found == FindIndex(sched, dKey)
        worked == found > 0 /\ Worked(sched[found], id)
        cur == IF worked THEN acc.currentStreak + 1 ELSE 0
    IN SimpleStatsScan(dates, sched, id, i + 1,
         [currentStreak |-> cur,
          maxStreak |-> IF worked THEN Max2(acc.maxStreak, cur) ELSE acc.maxStreak,
          monthTotal |-> IF worked THEN acc.monthTotal + 1 ELSE acc.monthTotal,
          monthDay |-> IF worked /\ CountsAsDay(sched[found], id)
                         THEN acc.monthDay + 1 ELSE acc.monthDay,
          monthNight |-> IF worked /\ CountsAsNight(sched[found], id)
                           THEN acc.monthNight + 1 ELSE acc.monthNight],
         east)

\* lines 253-288
SimpleFinalStatsOf(dates, sched, id, east) ==
  LET r == SimpleStatsScan(dates, sched, id, 1,
             [currentStreak |-> 0, maxStreak |-> 0, monthTotal |-> 0,
              monthDay |-> 0, monthNight |-> 0], east)
  IN [totalShifts |-> r.monthTotal, dayShifts |-> r.monthDay,
      nightShifts |-> r.monthNight, longestStreak |-> r.maxStreak]

\* the time zone of a run, read off the key of its first date: every key of
\* a run is formatted in the same zone
East == schedule # <<>> /\ schedule[1].date # formatDateKey(days[1])

\* lines 135-168
SimpleSetup ==
  /\ pc = "call"
  /\ days' = getDaysInMonth(year, month)
  /\ schedule' = <<>>
  /\ dayIndex' = 0
  /\ workHistory' = [id \in Ids(employees) |-> {}]
  /\ stats' = [id \in Ids(employees) |-> SeedStats(history, id)]
  /\ consecutiveDays' = [id \in Ids(employees) |-> SeedConsecutive(history, id)]
  /\ lastShiftType' = [id \in Ids(employees) |-> "null"]
  /\ pc' = "loop"
  /\ UNCHANGED <<versions, selectedVersionId, tab, file, parse, employees, year, month, config, history, manualHistory,
                 finalStats, randomSwaps>>

\* lines 171-249: one date of the loop
SimpleGenerateDate ==
  /\ pc = "loop"
  /\ dayIndex < Len(days)
  /\ \E east \in BOOLEAN :
       LET dayDate == days[dayIndex + 1]
           reqs == Reqs(config, getDay(dayDate))
           dateKey == SimpleFormatDateKey(dayDate, east)
           forbiddenDayWorkers == ForbiddenDayWorkers(dayIndex, history)
       IN /\ schedule # <<>> => east = East
          /\ \E dayPick \in SimplePickWorkers(employees, reqs.day, dayDate, "DAY",
                              workHistory, lastShiftType, consecutiveDays, stats,
                              forbiddenDayWorkers, config.distributeDayShiftsToEither, east) :
               \E nightPick \in SimplePickWorkers(employees, reqs.night, dayDate, "NIGHT",
                                  workHistory, lastShiftType, consecutiveDays, stats,
                                  dayPick.ids, FALSE, east) :
                 LET dayWorkers == dayPick.ids
                     nightWorkers == nightPick.ids
                 IN /\ randomSwaps' = randomSwaps + (IF dayPick.random THEN 1 ELSE 0)
                                                  + (IF nightPick.random THEN 1 ELSE 0)
                    /\ randomSwaps' <= MaxRandomSwaps
                    /\ workHistory' = [id \in Ids(employees) |->
                         NextWorkHistory(workHistory, id, dateKey,
                                         WorkedToday(id, dayWorkers, nightWorkers))]
                    /\ consecutiveDays' = [id \in Ids(employees) |->
                         NextConsecutive(consecutiveDays, id,
                                         WorkedToday(id, dayWorkers, nightWorkers))]
                    /\ lastShiftType' = [id \in Ids(employees) |->
                         NextLastShift(id, dayWorkers,
                                       WorkedToday(id, dayWorkers, nightWorkers))]
                    /\ stats' = [id \in Ids(employees) |->
                         NextStats(stats, id, dayWorkers,
                                   WorkedToday(id, dayWorkers, nightWorkers), TRUE)]
                    /\ history' = HistoryAfter(history, stats')
                    /\ schedule' = Append(schedule, [date |-> dateKey,
                                                     dayShift |-> dayWorkers,
                                                     nightShift |-> nightWorkers])
                    /\ dayIndex' = dayIndex + 1
  /\ UNCHANGED <<versions, selectedVersionId, tab, file, parse, employees, year, month, config, manualHistory, pc,
                 days, finalStats>>

\* lines 251-298
SimpleReturnVersion ==
  /\ pc = "loop"
  /\ dayIndex = Len(days)
  /\ finalStats' = [id \in Ids(employees) |-> SimpleFinalStatsOf(days, schedule, id, East)]
  /\ pc' = "done"
  /\ UNCHANGED <<versions, selectedVersionId, tab, file, parse, employees, year, month, config, history, manualHistory, days,
                 dayIndex, schedule, workHistory, lastShiftType, consecutiveDays,
                 stats, randomSwaps>>

\* months whose 1st is a Sunday: September 2024 (30 days), December 2024 and
\* February 2026 (exactly four weeks)
SundayMonths == {<<2024, 8>>, <<2024, 11>>, <<2026, 1>>}

\* pools without quota: one of EITHER workers, and one in which the random
\* answer of the comparator is reached
SimplePools ==
  { <<Emp("w1", "EITHER", {}, 0), Emp("w2", "EITHER", {}, 0)>>,
    <<Emp("w1", "EITHER", {0}, 0), Emp("w2", "DAY_ONLY", {}, 0), Emp("w3", "NIGHT_ONLY", {}, 0)>> }

InitSimple ==
  /\ \E ym \in SundayMonths :
       /\ year = ym[1]
       /\ month = ym[2]
  /\ employees \in SimplePools
  /\ config \in Configs
  /\ history \in Histories(employees)
  /\ manualHistory = NoManual
  /\ Idle

NextSimple == SimpleSetup \/ SimpleGenerateDate \/ SimpleReturnVersion

SpecSimple == InitSimple /\ [][NextSimple]_vars

\* ------------------------------------------------------------------------
\* App (App.tsx): the list of versions, the selected version and the
\* handlers that change them.  A version is kept by its id, its month and
\* its schedule and stats.
\* ------------------------------------------------------------------------
\* the ids crypto.randomUUID() returns (scheduler.ts, line 325)
VersionIds == {"u1", "u2"}

\* the longest list of versions
MaxVersions == 2

\* null, as a version without fields but the id
NoVersion == [id |-> "null"]

\* versions.find(v => v.id === id): the index of the first one, 0 for undefined
FindVersion(list, id) ==
  IF \E i \in DOMAIN list : list[i].id = id
    THEN CHOOSE i \in DOMAIN list : list[i].id = id /\ \A j \in 1..(i - 1) : list[j].id # id
    ELSE 0

\* versions.find(...) with no fallback
CurrentVersion_NoFallback ==
  IF FindVersion(versions, selectedVersionId) > 0
    THEN versions[FindVersion(versions, selectedVersionId)]
    ELSE NoVersion

\* App.tsx lines 481-483:
\* versions.find(v => v.id === selectedVersionId) || versions[0] || null
CurrentVersion ==
  IF FindVersion(versions, selectedVersionId) > 0
    THEN versions[FindVersion(versions, selectedVersionId)]
    ELSE IF versions # <<>> THEN versions[1] ELSE NoVersion

\* App.tsx lines 533-535
SetTab ==
  /\ pc = "ready"
  /\ \E t \in {"workers", "rules", "schedule"} : t # tab /\ tab' = t
  /\ UNCHANGED <<versions, selectedVersionId, file, parse, employees, year, month, config,
                 history, manualHistory, pc, days, dayIndex, schedule, workHistory,
                 lastShiftType, consecutiveDays, stats, finalStats, randomSwaps>>

\* App.tsx line 551: onRemove={id => setEmployees(prev => prev.filter(...))}
RemoveWorker ==
  /\ pc = "ready"
  /\ tab = "workers"
  /\ \E k \in DOMAIN employees :
       employees' = SelectSeq(employees, LAMBDA e : e.id # employees[k].id)
  /\ UNCHANGED <<versions, selectedVersionId, tab, file, parse, year, month, config,
                 history, manualHistory, pc, days, dayIndex, schedule, workHistory,
                 lastShiftType, consecutiveDays, stats, finalStats, randomSwaps>>

\* App.tsx lines 486-490: handleGenerate with no employees (the button is on
\* the schedule tab, lines 567 and 622)
HandleGenerateEmpty ==
  /\ pc = "ready"
  /\ tab = "schedule"
  /\ Len(employees) = 0
  /\ tab' = "workers"
  /\ UNCHANGED <<versions, selectedVersionId, file, parse, employees, year, month, config,
                 history, manualHistory, pc, days, dayIndex, schedule, workHistory,
                 lastShiftType, consecutiveDays, stats, finalStats, randomSwaps>>

\* App.tsx lines 492-495: the version generateSchedule returned (lines
\* 324-332 of scheduler.ts) is put at the head of the list and selected
AddVersion ==
  /\ pc = "done"
  /\ Len(versions) < MaxVersions
  /\ \E id \in VersionIds :
       LET newVersion == [id |-> id, year |-> year, month |-> month,
                          schedule |-> schedule, stats |-> finalStats]
       IN /\ versions' = <<newVersion>> \o versions
          /\ selectedVersionId' = newVersion.id
  /\ tab' = "schedule"
  /\ pc' = "ready"
  /\ UNCHANGED <<file, parse, employees, year, month, config, history, manualHistory,
                 days, dayIndex, schedule, workHistory, lastShiftType, consecutiveDays,
                 stats, finalStats, randomSwaps>>

\* App.tsx line 637: onClick={() => setSelectedVersionId(v.id)}
SelectVersion ==
  /\ pc = "ready"
  /\ tab = "schedule"
  /\ \E i \in DOMAIN versions :
       /\ versions[i].id # selectedVersionId
       /\ selectedVersionId' = versions[i].id
  /\ UNCHANGED <<versions, tab, file, parse, employees, year, month, config,
                 history, manualHistory, pc, days, dayIndex, schedule, workHistory,
                 lastShiftType, consecutiveDays, stats, finalStats, randomSwaps>>

\* App.tsx lines 517-521
DeleteVersion ==
  /\ pc = "ready"
  /\ tab = "schedule"
  /\ \E i \in DOMAIN versions :
       LET id == versions[i].id
       IN /\ versions' = SelectSeq(versions, LAMBDA v : v.id # id)
          /\ selectedVersionId' = IF selectedVersionId = id THEN "null" ELSE selectedVersionId
  /\ UNCHANGED <<tab, file, parse, employees, year, month, config,
                 history, manualHistory, pc, days, dayIndex, schedule, workHistory,
                 lastShiftType, consecutiveDays, stats, finalStats, randomSwaps>>

\* types.ts line 579: the delete button of the other copy of App, which
\* leaves selectedVersionId as it is
DeleteVersionOnly ==
  /\ pc = "ready"
  /\ tab = "schedule"
  /\ \E i \in DOMAIN versions :
       versions' = SelectSeq(versions, LAMBDA v : v.id # versions[i].id)
  /\ UNCHANGED <<selectedVersionId, tab, file, parse, employees, year, month, config,
                 history, manualHistory, pc, days, dayIndex, schedule, workHistory,
                 lastShiftType, consecutiveDays, stats, finalStats, randomSwaps>>

InitVersions ==
  /\ year = 2024
  /\ month = 1
  /\ employees = <<Named("w1", AnnLee)>>
  /\ config = [requirements |-> <<>>, distributeDayShiftsToEither |-> FALSE]
  /\ history = NoHistory
  /\ manualHistory = NoManual
  /\ pc = "ready"
  /\ days = <<>>
  /\ dayIndex = 0
  /\ schedule = <<>>
  /\ workHistory = <<>>
  /\ lastShiftType = <<>>
  /\ consecutiveDays = <<>>
  /\ stats = <<>>
  /\ finalStats = <<>>
  /\ randomSwaps = 0
  /\ file = <<>>
  /\ parse = <<>>
  /\ NoVersions

NextVersions ==
  \/ SetTab \/ RemoveWorker \/ HandleGenerateEmpty \/ HandleGenerate
  \/ Setup \/ GenerateDate \/ ReturnVersion \/ AddVersion
  \/ SelectVersion \/ DeleteVersion \/ DeleteVersionOnly

SpecVersions == InitVersions /\ [][NextVersions]_vars

\* ------------------------------------------------------------------------
\* Vocabulary of the properties: the calendar of date keys <<y, m, d>>
\* (m from 1 to 12), stated without the day numbers of the model
\* ------------------------------------------------------------------------
KeyMonthLength(y, m) ==
  IF m = 2 THEN (IF (y % 4 = 0 /\ y % 100 # 0) \/ y % 400 = 0 THEN 29 ELSE 28)
  ELSE IF m \in {4, 6, 9, 11} THEN 30 ELSE 31

\* the calendar date after key k
KeyAfter(k) ==
  IF k[3] < KeyMonthLength(k[1], k[2]) THEN <<k[1], k[2], k[3] + 1>>
  ELSE IF k[2] < 12 THEN <<k[1], k[2] + 1, 1>>
  ELSE <<k[1] + 1, 1, 1>>

\* the weekday of key k, 0 = Sunday (Sakamoto's rule)
KeyWeekday(k) ==
  LET y == IF k[2] < 3 THEN k[1] - 1 ELSE k[1]
      t == <<0, 3, 2, 5, 0, 3, 5, 1, 4, 6, 2, 4>>
  IN (y + (y \div 4) - (y \div 100) + (y \div 400) + t[k[2]] + k[3]) % 7

\* key k lies in the target month
KeyInTarget(k) == k[1] = year /\ k[2] = month + 1

KeyInPreviousMonth(k) ==
  IF month = 0 THEN k[1] = year - 1 /\ k[2] = 12 ELSE k[1] = year /\ k[2] = month

KeyInNextMonth(k) ==
  IF month = 11 THEN k[1] = year + 1 /\ k[2] = 1 ELSE k[1] = year /\ k[2] = month + 2

Elems(list) == {list[i] : i \in DOMAIN list}

OnDay(i, id) == id \in Elems(schedule[i].dayShift)

OnNight(i, id) == id \in Elems(schedule[i].nightShift)

\* the i-th date of the schedule has an entry in the ManualHistoryInput
ManualAt(i) == manualHistory.present /\ schedule[i].date \in DOMAIN manualHistory.entries

Dates == 1..Len(schedule)

\* ------------------------------------------------------------------------
\* C7
\* ------------------------------------------------------------------------
\* C7: for every (year, month), getFullWeeksRange returns consecutive calendar
\* dates whose first date is a Sunday, whose last date is a Saturday and
\* whose length is a multiple of 7 and at most 42, also across the
\* December/January rollover.
C7_FullWeeks ==
  pc = "ranged" =>
    /\ Len(days) > 0
    /\ Len(days) % 7 = 0
    /\ Len(days) <= 42
    /\ KeyWeekday(formatDateKey(days[1])) = 0
    /\ KeyWeekday(formatDateKey(days[Len(days)])) = 6
    /\ \A i \in 1..(Len(days) - 1) :
         formatDateKey(days[i + 1]) = KeyAfter(formatDateKey(days[i]))

\* a December whose range runs into January of the next year, six weeks long
C7_Witness ==
  /\ pc = "ranged"
  /\ month = 11
  /\ Len(days) = 42
  /\ formatDateKey(days[1])[2] = 11
  /\ formatDateKey(days[Len(days)])[1] = year + 1

\* ------------------------------------------------------------------------
\* C1
\* ------------------------------------------------------------------------
\* C1 as stated: on every date of the schedule no worker id is in both the
\* dayShift list and the nightShift list.
C1_Original ==
  \A i \in Dates : Elems(schedule[i].dayShift) \cap Elems(schedule[i].nightShift) = {}

\* C1 amended: on every date of the schedule that has no manual entry, no
\* worker id is in both the dayShift list and the nightShift list.
C1_NoDoubleShift ==
  \A i \in Dates :
    ~ManualAt(i) => Elems(schedule[i].dayShift) \cap Elems(schedule[i].nightShift) = {}

\* a generated date whose day worker may work nights and is not hindered by
\* days off or by the cap, and whose night slot is left short of its headcount
C1_Witness ==
  \E i \in Dates : \E k \in 1..Len(employees) :
    /\ ~ManualAt(i)
    /\ OnDay(i, employees[k].id)
    /\ employees[k].preference = "EITHER"
    /\ schedule[i].nightShift # <<>>
    /\ Len(schedule[i].nightShift) < Reqs(config, KeyWeekday(schedule[i].date)).night

\* ------------------------------------------------------------------------
\* C2
\* ------------------------------------------------------------------------
\* the step that processes a date, and the index of that date
ProcessesDate == pc = "loop" /\ dayIndex' = dayIndex + 1

\* C2 as stated: a worker whose consecutive-days counter is 5 or more when a
\* date is processed is in neither list of that date.
C2_Original ==
  [][ProcessesDate =>
       \A id \in Ids(employees) :
         consecutiveDays[id] >= 5 =>
           id \notin Elems(schedule'[dayIndex'].dayShift)
                       \cup Elems(schedule'[dayIndex'].nightShift)]_vars

\* C2 amended: a worker whose consecutive-days counter is 5 or more when a
\* date without a manual entry is processed is in neither list of that date;
\* the counter may come from consecutiveDaysEnding of the history.
C2_CapAtFive ==
  [][(ProcessesDate /\ formatDateKey(days[dayIndex + 1]) \notin
        (IF manualHistory.present THEN DOMAIN manualHistory.entries ELSE {})) =>
       \A id \in Ids(employees) :
         consecutiveDays[id] >= 5 =>
           id \notin Elems(schedule'[dayIndex'].dayShift)
                       \cup Elems(schedule'[dayIndex'].nightShift)]_vars

\* a worker seeded with 5 days by the history is absent from the first date,
\* and later a worker is absent from a generated date after five dates worked
C2_Witness ==
  /\ history.present
  /\ \E id \in DOMAIN history.consecutiveDaysEnding :
       /\ history.consecutiveDaysEnding[id] >= 5
       /\ Len(schedule) >= 1
       /\ ~ManualAt(1)
       /\ ~OnDay(1, id) /\ ~OnNight(1, id)
  /\ \E i \in Dates : \E id \in Ids(employees) :
       /\ i > 5
       /\ ~ManualAt(i)
       /\ \A j \in (i - 5)..(i - 1) : OnDay(j, id) \/ OnNight(j, id)
       /\ ~OnDay(i, id) /\ ~OnNight(i, id)

C4_Original ==
  (history.present /\ Len(schedule) >= 1) =>
    Elems(history.lastDayNightShiftIds) \cap Elems(schedule[1].dayShift) = {}

\* C4 amended: with a HistoricalContext and no manual entry for the first
\* date of the range, nobody of lastDayNightShiftIds is in the dayShift list
\* of the first date.
C4_HistoryNightCarriedOver ==
  (history.present /\ Len(schedule) >= 1 /\ ~ManualAt(1)) =>
    Elems(history.lastDayNightShiftIds) \cap Elems(schedule[1].dayShift) = {}

\* the first date is generated, a night worker of the history works its
\* night and the day slot is left short of its headcount
C4_Witness ==
  /\ history.present
  /\ Len(schedule) >= 1
  /\ ~ManualAt(1)
  /\ \E id \in Elems(history.lastDayNightShiftIds) : OnNight(1, id)
  /\ Len(schedule[1].dayShift) < Reqs(config, KeyWeekday(schedule[1].date)).day

\* ------------------------------------------------------------------------
\* C5
\* ------------------------------------------------------------------------
\* C5 as stated: a worker is in neither list of any date of the range whose
\* weekday is one of the worker's days off.
C5_Original ==
  \A i \in Dates : \A k \in 1..Len(employees) :
    KeyWeekday(schedule[i].date) \in employees[k].daysOff =>
      ~OnDay(i, employees[k].id) /\ ~OnNight(i, employees[k].id)

\* C5 amended: a worker is in neither list of any date of the range (padding
\* included) that has no manual entry and whose weekday is one of the
\* worker's days off.
C5_DaysOffRespected ==
  \A i \in Dates : \A k \in 1..Len(employees) :
    (~ManualAt(i) /\ KeyWeekday(schedule[i].date) \in employees[k].daysOff) =>
      ~OnDay(i, employees[k].id) /\ ~OnNight(i, employees[k].id)

\* a generated padding date on a day off of a worker who worked neither the
\* date before nor that date, while a slot of the date is left short
C5_Witness ==
  \E i \in Dates : \E k \in 1..Len(employees) :
    /\ i > 1
    /\ ~ManualAt(i)
    /\ schedule[i].isPadding
    /\ KeyWeekday(schedule[i].date) \in employees[k].daysOff
    /\ ~OnDay(i - 1, employees[k].id) /\ ~OnNight(i - 1, employees[k].id)
    /\ ~OnDay(i, employees[k].id) /\ ~OnNight(i, employees[k].id)
    /\ Len(schedule[i].dayShift) < Reqs(config, KeyWeekday(schedule[i].date)).day

\* ------------------------------------------------------------------------
\* C6
\* ------------------------------------------------------------------------
\* C6: every date of the range with an entry in the ManualHistoryInput has
\* dayShift and nightShift equal to the entry's lists, unfiltered, unranked
\* and not cut to the required headcount.
C6_ManualVerbatim ==
  \A i \in Dates :
    ManualAt(i) =>
      /\ schedule[i].dayShift = manualHistory.entries[schedule[i].date].dayShift
      /\ schedule[i].nightShift = manualHistory.entries[schedule[i].date].nightShift

\* a manual padding date whose day list is longer than the headcount and
\* holds a worker on one of that worker's days off
C6_Witness ==
  \E i \in Dates : \E k \in 1..Len(employees) :
    /\ ManualAt(i)
    /\ schedule[i].isPadding
    /\ Len(schedule[i].dayShift) > Reqs(config, KeyWeekday(schedule[i].date)).day
    /\ OnDay(i, employees[k].id)
    /\ KeyWeekday(schedule[i].date) \in employees[k].daysOff

\* ------------------------------------------------------------------------
\* C8
\* ------------------------------------------------------------------------
\* the dates of the schedule before the first and after the last date of the
\* target month
Leading == {i \in Dates : \A j \in 1..i : ~KeyInTarget(schedule[j].date)}

Trailing == {i \in Dates : \A j \in i..Len(schedule) : ~KeyInTarget(schedule[j].date)}

\* C8: in the returned schedule every date of the target month occurs
\* exactly once, isPadding is false exactly on the dates of the target month
\* and year, the leading padding is fewer than 7 dates of the previous month
\* and the trailing padding fewer than 7 dates of the next month.
C8_PaddingFlags ==
  pc = "done" =>
    /\ \A d \in 1..KeyMonthLength(year, month + 1) :
         Cardinality({i \in Dates : schedule[i].date = <<year, month + 1, d>>}) = 1
    /\ \A i \in Dates : schedule[i].isPadding = ~KeyInTarget(schedule[i].date)
    /\ Cardinality(Leading) < 7
    /\ \A i \in Leading : KeyInPreviousMonth(schedule[i].date)
    /\ Cardinality(Trailing) < 7
    /\ \A i \in Trailing : KeyInNextMonth(schedule[i].date)
    /\ \A i \in Dates : i \in Leading \/ i \in Trailing \/ KeyInTarget(schedule[i].date)

\* a returned January with leading padding in December of the year before
\* and trailing padding in February
C8_Witness ==
  /\ pc = "done"
  /\ month = 0
  /\ Leading # {}
  /\ Trailing # {}
  /\ schedule[1].date[1] = year - 1
  /\ schedule[1].isPadding

\* ------------------------------------------------------------------------
\* C9
\* ------------------------------------------------------------------------
\* C9: for every worker of the pool, totalShifts of the returned stats is
\* the number of non-padding dates on which the worker is in the dayShift or
\* the nightShift list; padding dates and the counts of the history's
\* accumulatedStats are not included.
C9_TotalShifts ==
  pc = "done" =>
    \A id \in Ids(employees) :
      finalStats[id].totalShifts =
        Cardinality({i \in Dates : KeyInTarget(schedule[i].date)
                                     /\ (OnDay(i, id) \/ OnNight(i, id))})

\* a returned version of a run seeded with non-zero accumulated counts, for
\* a worker who also worked a padding date
C9_Witness ==
  /\ pc = "done"
  /\ history.present
  /\ \E id \in DOMAIN history.accumulatedStats :
       /\ history.accumulatedStats[id].total > 0
       /\ finalStats[id].totalShifts > 0
       /\ \E i \in Dates : ~KeyInTarget(schedule[i].date) /\ (OnDay(i, id) \/ OnNight(i, id))

\* ------------------------------------------------------------------------
\* C10
\* ------------------------------------------------------------------------
\* C10: for every worker of the pool and every input, the returned stats
\* satisfy dayShifts + nightShifts = totalShifts.
C10_DayPlusNight ==
  pc = "done" =>
    \A id \in Ids(employees) :
      finalStats[id].dayShifts + finalStats[id].nightShifts = finalStats[id].totalShifts

\* a returned version with a worker that a manual entry of a date of the
\* month lists on both shifts, and more than once
C10_Witness ==
  /\ pc = "done"
  /\ \E i \in Dates : \E id \in Ids(employees) :
       /\ KeyInTarget(schedule[i].date)
       /\ OnDay(i, id) /\ OnNight(i, id)
       /\ Cardinality({j \in DOMAIN schedule[i].nightShift : schedule[i].nightShift[j] = id}) > 1
       /\ finalStats[id].nightShifts > 0

\* ------------------------------------------------------------------------
\* C11
\* ------------------------------------------------------------------------
\* worker id is in a list of every date from index i to index j
RunOf(id, i, j) == \A k \in i..j : OnDay(k, id) \/ OnNight(k, id)

WorkedRunLengths(id) ==
  {0} \cup {j - i + 1 : <<i, j>> \in {p \in Dates \X Dates : p[1] <= p[2] /\ RunOf(id, p[1], p[2])}}

\* C11: the returned longestStreak of every worker is the length of the
\* longest run of consecutive dates of the whole returned sequence, padding
\* dates included, on which the worker is in the dayShift or the nightShift
\* list; days of the history before the range add nothing.
C11_LongestStreak ==
  pc = "done" =>
    \A id \in Ids(employees) :
      /\ finalStats[id].longestStreak \in WorkedRunLengths(id)
      /\ \A n \in WorkedRunLengths(id) : n <= finalStats[id].longestStreak

\* a returned version whose longest run of a worker starts on a leading
\* padding date and runs into the month, the worker having been seeded with
\* consecutive days by the history
C11_Witness ==
  /\ pc = "done"
  /\ history.present
  /\ \E id \in DOMAIN history.consecutiveDaysEnding : \E j \in Dates :
       /\ history.consecutiveDaysEnding[id] > 0
       /\ ~KeyInTarget(schedule[1].date)
       /\ KeyInTarget(schedule[j].date)
       /\ RunOf(id, 1, j)
       /\ finalStats[id].longestStreak = j
       /\ j >= 3

\* ------------------------------------------------------------------------
\* C12
\* ------------------------------------------------------------------------
\* the call of C12: February 2024, one day and one night worker required on
\* every weekday, two EITHER workers without days off or quota, no history
\* and no manual entries
TwoWorkerFebruary ==
  /\ year = 2024 /\ month = 1
  /\ Len(employees) = 2
  /\ \A k \in 1..2 : /\ employees[k].preference = "EITHER"
                      /\ employees[k].daysOff = {}
                      /\ employees[k].targetShifts = 0
  /\ employees[1].id # employees[2].id
  /\ \A w \in 0..6 : Reqs(config, w) = [day |-> 1, night |-> 1]
  /\ ~history.present
  /\ ~manualHistory.present

\* worker id has worked the five dates before date i
CappedAt(i, id) == i > 5 /\ RunOf(id, i - 5, i - 1)

\* C12: in that call, whatever the order of tied candidates, every date has
\* exactly one day worker and one night worker unless a worker is held back
\* by the five-consecutive-days rule on that date, and the two returned
\* totalShifts differ by at most 1.
C12_TwoWorkers ==
  TwoWorkerFebruary =>
    /\ \A i \in Dates :
         \/ Len(schedule[i].dayShift) = 1 /\ Len(schedule[i].nightShift) = 1
         \/ \E id \in Ids(employees) : CappedAt(i, id)
    /\ pc = "done" =>
         LET a == finalStats[employees[1].id].totalShifts
             b == finalStats[employees[2].id].totalShifts
         IN a - b \in {-1, 0, 1}

\* the returned version of that call: a date left short by the cap, a later
\* date with both slots filled, and both workers with shifts in the month
C12_Witness ==
  /\ TwoWorkerFebruary
  /\ pc = "done"
  /\ \E i, j \in Dates :
       /\ i < j
       /\ \E id \in Ids(employees) : CappedAt(i, id)
       /\ Len(schedule[i].dayShift) + Len(schedule[i].nightShift) < 2
       /\ Len(schedule[j].dayShift) = 1 /\ Len(schedule[j].nightShift) = 1
  /\ \A id \in Ids(employees) : finalStats[id].totalShifts > 0

\* ------------------------------------------------------------------------
\* C13
\* ------------------------------------------------------------------------
\* the date being processed has no manual entry: both of its lists are
\* results of pickWorkers
GeneratesDate ==
  /\ ProcessesDate
  /\ formatDateKey(days[dayIndex + 1]) \notin
       (IF manualHistory.present THEN DOMAIN manualHistory.entries ELSE {})

\* the ids excluded from the day slot of the date being processed
ExcludedFromDay ==
  IF dayIndex = 0 /\ history.present THEN Elems(history.lastDayNightShiftIds) ELSE {}

\* the weekday of the date being processed, by the calendar
ProcessedWeekday == KeyWeekday(formatDateKey(days[dayIndex + 1]))

\* the five hard constraints on worker e for a slot of the date being
\* processed, on the running state before the step
HardEligible(e, shiftType, excluded) ==
  /\ e.id \notin excluded
  /\ shiftType = "DAY" => e.preference # "NIGHT_ONLY"
  /\ shiftType = "NIGHT" => e.preference # "DAY_ONLY"
  /\ ProcessedWeekday \notin e.daysOff
  /\ consecutiveDays[e.id] < 5
  /\ shiftType = "DAY" =>
       ~(/\ dayIndex >= 1
         /\ OnDay(dayIndex, e.id) \/ OnNight(dayIndex, e.id)
         /\ lastShiftType[e.id] = "NIGHT")

NoIdTwice(list) == \A i, j \in DOMAIN list : list[i] = list[j] => i = j

\* list is a valid result of pickWorkers for count places
ValidPick(list, count, shiftType, excluded) ==
  /\ Len(list) <= count
  /\ NoIdTwice(list)
  /\ \A i \in DOMAIN list :
       \E k \in DOMAIN employees :
         employees[k].id = list[i] /\ HardEligible(employees[k], shiftType, excluded)

\* C13: for every slot of a generated date, pickWorkers returns at most
\* count ids, no id twice, and every id returned is of a worker that is not
\* excluded, whose preference allows the shift, who has no day off on the
\* weekday, whose counter is below 5 and, for the day slot, who did not work
\* the previous date with NIGHT as last shift.
C13_PickedAreEligible ==
  [][GeneratesDate =>
       LET reqs == Reqs(config, ProcessedWeekday)
           picked == schedule'[dayIndex']
       IN /\ ValidPick(picked.dayShift, reqs.day, "DAY", ExcludedFromDay)
          /\ ValidPick(picked.nightShift, reqs.night, "NIGHT", Elems(picked.dayShift))]_vars

\* a generated date with two day workers out of three, one of them
\* DAY_ONLY, a NIGHT_ONLY worker on the night, and a worker left out on a
\* day off
C13_Witness ==
  \E i \in Dates :
    /\ ~ManualAt(i)
    /\ Len(employees) = 3
    /\ Len(schedule[i].dayShift) = 2
    /\ \E k \in DOMAIN employees :
         employees[k].preference = "DAY_ONLY" /\ OnDay(i, employees[k].id)
    /\ \E k \in DOMAIN employees :
         employees[k].preference = "NIGHT_ONLY" /\ OnNight(i, employees[k].id)
    /\ \E j \in Dates : \E k \in DOMAIN employees :
         /\ ~ManualAt(j)
         /\ KeyWeekday(schedule[j].date) \in employees[k].daysOff
         /\ ~OnDay(j, employees[k].id) /\ ~OnNight(j, employees[k].id)

\* ------------------------------------------------------------------------
\* C14
\* ------------------------------------------------------------------------
\* the number of pool workers that satisfy the hard constraints of a slot of
\* the date being processed
EligibleCount(shiftType, excluded) ==
  Cardinality({k \in DOMAIN employees : HardEligible(employees[k], shiftType, excluded)})

Min2(a, b) == IF a <= b THEN a ELSE b

\* C14: on every generated date each list has min(required headcount,
\* number of hard-eligible workers) ids (the night slot counting the day
\* workers of the date as excluded), so a slot is short only for want of
\* eligible workers, a headcount of 0 gives an empty list and an empty pool
\* gives empty lists.
C14_FilledToHeadcount ==
  [][GeneratesDate =>
       LET reqs == Reqs(config, ProcessedWeekday)
           picked == schedule'[dayIndex']
       IN /\ Len(picked.dayShift) = Min2(reqs.day, EligibleCount("DAY", ExcludedFromDay))
          /\ Len(picked.nightShift) =
               Min2(reqs.night, EligibleCount("NIGHT", Elems(picked.dayShift)))
          /\ reqs.day = 0 => picked.dayShift = <<>>
          /\ employees = <<>> => picked.dayShift = <<>> /\ picked.nightShift = <<>>]_vars

\* a run with a generated date whose night slot wants two workers and gets
\* one, another whose day slot is full with a worker to spare, and a date
\* with day headcount 0 left empty
C14_Witness ==
  /\ \E i \in Dates :
       /\ ~ManualAt(i)
       /\ Reqs(config, KeyWeekday(schedule[i].date)).night = 2
       /\ Len(schedule[i].nightShift) = 1
  /\ \E i \in Dates :
       /\ ~ManualAt(i)
       /\ Reqs(config, KeyWeekday(schedule[i].date)).day = 2
       /\ Len(schedule[i].dayShift) = 2
       /\ Len(schedule[i].nightShift) >= 1
  /\ \E i \in Dates :
       /\ ~ManualAt(i)
       /\ Reqs(config, KeyWeekday(schedule[i].date)).day = 0
       /\ schedule[i].dayShift = <<>>
       /\ schedule[i].nightShift # <<>>

\* a run on the empty pool that has processed a generated date
C14_EmptyPoolReached ==
  employees = <<>> /\ \E i \in Dates : ~ManualAt(i)

\* ------------------------------------------------------------------------
\* C15
\* ------------------------------------------------------------------------
\* the schedule holds the dates of the full weeks around the target month,
\* each once and in calendar order
OneEntryPerDateInOrder ==
  /\ Len(schedule) > 0
  /\ Len(schedule) % 7 = 0
  /\ KeyWeekday(schedule[1].date) = 0
  /\ \E i \in 1..7 : schedule[i].date = <<year, month + 1, 1>>
  /\ \A i \in 1..(Len(schedule) - 1) : schedule[i + 1].date = KeyAfter(schedule[i].date)
  /\ \E i \in (Len(schedule) - 6)..Len(schedule) :
       schedule[i].date = <<year, month + 1, KeyMonthLength(year, month + 1)>>

Returned ==
  /\ pc = "done"
  /\ OneEntryPerDateInOrder
  /\ DOMAIN finalStats = Ids(employees)

\* the phases of the call in the order it goes through them, and the dates
\* it has still to process
Phase == CASE pc = "call" -> 2 [] pc = "loop" -> 1 [] OTHER -> 0

DatesLeft == Len(days) - dayIndex

\* a step moves to a later phase, or stays in the loop with one date less
Progresses ==
  \/ Phase' < Phase
  \/ Phase' = Phase /\ DatesLeft' < DatesLeft /\ DatesLeft' >= 0

\* the call can make a step: it has not started, or it has a date to process
\* and a result of pickWorkers for each of its slots, or it is at the return
CanStep ==
  \/ pc = "call"
  \/ pc = "loop" /\ dayIndex = Len(days)
  \/ /\ pc = "loop"
     /\ dayIndex < Len(days)
     /\ LET dayDate == days[dayIndex + 1]
            reqs == Reqs(config, getDay(dayDate))
        IN \/ HasManualEntry(manualHistory, formatDateKey(dayDate))
           \/ \E dayPick \in PickForSlot(reqs.day, "DAY",
                                         ForbiddenDayWorkers(dayIndex, history),
                                         config.distributeDayShiftsToEither) :
                \E nightPick \in PickForSlot(reqs.night, "NIGHT", dayPick.ids, FALSE) :
                  ~dayPick.random /\ ~nightPick.random

\* C15: for every input the call of generateSchedule ends: every step
\* brings the return nearer, no state before the return is stuck, and the
\* state at the return has exactly one schedule entry per date of the range
\* in date order and a stats entry for every worker of the pool.
C15_Terminates ==
  /\ [][Progresses]_vars
  /\ [](pc # "done" => CanStep)
  /\ [](pc = "done" => Returned)

\* a call on three workers with history and manual entries has returned a
\* schedule with a date nobody works
C15_Witness ==
  /\ Returned
  /\ Len(employees) = 3
  /\ history.present
  /\ manualHistory.present
  /\ \E i \in Dates : schedule[i].dayShift = <<>> /\ schedule[i].nightShift = <<>>

\* ------------------------------------------------------------------------
\* C16
\* ------------------------------------------------------------------------
\* C16: no step of a call of generateSchedule changes an input: the pool of
\* workers, the year and month, the requirements and settings, the counts,
\* counters and night list of the history, and the lists of the manual
\* entries stay as they were given, so another call on them is seeded alike.
C16_InputsUnchanged ==
  [][/\ employees' = employees
     /\ year' = year /\ month' = month
     /\ config' = config
     /\ history' = history
     /\ manualHistory' = manualHistory]_vars

\* a returned call whose running counts of a worker have moved away from the
\* counts the history gave for that worker, with manual entries used
C16_Witness ==
  /\ pc = "done"
  /\ history.present
  /\ manualHistory.present
  /\ \E i \in Dates : ManualAt(i) /\ schedule[i].dayShift # <<>>
  /\ \E id \in DOMAIN history.accumulatedStats :
       /\ history.accumulatedStats[id].total > 0
       /\ id \in DOMAIN stats
       /\ stats[id].total > history.accumulatedStats[id].total

\* ------------------------------------------------------------------------
\* Vocabulary of the properties of parsePastScheduleCSV: the file as a table
\* ------------------------------------------------------------------------
\* the line holds something else than blanks
HasText(line) == Len(line) > 1 \/ \E c \in DOMAIN line : line[c].quoted \/ line[c].text # <<>>

\* the positions in the file of the lines that hold text; the first is the
\* header, the others are the data rows
TextLines == {k \in DOMAIN file : HasText(file[k])}

HeaderAt == CHOOSE k \in TextLines : \A l \in TextLines : k <= l

DataRowsAt == TextLines \ {HeaderAt}

LastRowAt == CHOOSE k \in DataRowsAt : \A l \in DataRowsAt : l <= k

\* ------------------------------------------------------------------------
\* C17
\* ------------------------------------------------------------------------
\* C17: parsePastScheduleCSV fails exactly when the text has fewer than two
\* lines that are not blank; on any other text it goes through the rows and
\* returns a HistoricalContext with counts and a counter for every worker of
\* the pool, whatever the cells hold.
C17_FailsOnlyWhenTooShort ==
  /\ pc = "failed" => Cardinality(TextLines) < 2
  /\ pc \in {"rows", "parsed"} =>
       /\ Cardinality(TextLines) >= 2
       /\ parse.i <= Len(parse.lines)
       /\ DOMAIN parse.accumulatedStats = Ids(employees)
       /\ DOMAIN parse.consecutiveDays = Ids(employees)
       /\ Elems(parse.lastDayNightShiftIds) \subseteq Ids(employees)
  /\ pc = "parsed" => parse.i = Cardinality(TextLines)

\* a HistoricalContext returned for a text with blank lines around a row that
\* names somebody who is not in the pool
C17_Witness ==
  /\ pc = "parsed"
  /\ \E k \in DOMAIN file : ~HasText(file[k])
  /\ \E k \in DataRowsAt : \E c \in DOMAIN file[k] :
       /\ file[k][c].text # <<>>
       /\ c > 2
       /\ \A j \in DOMAIN employees :
            toLowerCase(employees[j].name) # toLowerCase(file[k][c].text)

\* the failure on a text that has a header between blank lines and no row
C17_FailureReached ==
  /\ pc = "failed"
  /\ Len(file) = 3
  /\ Cardinality(TextLines) = 1

\* ------------------------------------------------------------------------
\* C18
\* ------------------------------------------------------------------------
\* the columns that the header labels as day-shift and as night-shift
DayColumns == {c \in DOMAIN file[HeaderAt] : IsDayHeader(file[HeaderAt][c])}

NightColumns == {c \in DOMAIN file[HeaderAt] : IsNightHeader(file[HeaderAt][c])}

\* the cell of column c of line k holds the name of worker e, in any case
CellNames(k, c, e) ==
  /\ c \in DOMAIN file[k]
  /\ file[k][c].text # <<>>
  /\ toLowerCase(file[k][c].text) = toLowerCase(e.name)

\* worker e is in a day or night column of the data row at line k
AppearsIn(k, e) == \E c \in DayColumns \cup NightColumns : CellNames(k, c, e)

\* the data rows from which on, down to the last, worker e is in every row
TrailingRows(e) == {k \in DataRowsAt : \A l \in DataRowsAt : l >= k => AppearsIn(l, e)}

\* every cell of every data row is in quotes or is a single word: the rows
\* that exportToCSV writes are of this kind
RowsAsExported ==
  \A k \in DataRowsAt : \A c \in DOMAIN file[k] :
    file[k][c].quoted \/ Len(file[k][c].text) = 1

\* C18: in the returned HistoricalContext, consecutiveDaysEnding of every
\* worker is the number of data rows, counted back from the last one without
\* a gap, in which the worker is in a day or night column (0 when absent from
\* the last row); a row with the worker in several columns counts once.
C18_TrailingRows ==
  pc = "parsed" =>
    \A j \in DOMAIN employees :
      parse.consecutiveDays[employees[j].id] = Cardinality(TrailingRows(employees[j]))

\* the same on files whose rows are as exportToCSV writes them
C18_OnExportedRows == (pc = "parsed" /\ RowsAsExported) => C18_TrailingRows

\* ------------------------------------------------------------------------
\* C19
\* ------------------------------------------------------------------------
\* the night columns of the last data row that hold the name of a pool worker
NightCellsOfLastRow ==
  {c \in NightColumns : \E j \in DOMAIN employees : CellNames(LastRowAt, c, employees[j])}

\* C19: in the returned HistoricalContext, lastDayNightShiftIds holds the
\* ids of the pool workers named in the night columns of the last data row,
\* one per such cell, and no id from an earlier row or from a day column.
C19_LastRowNight ==
  pc = "parsed" =>
    /\ Len(parse.lastDayNightShiftIds) = Cardinality(NightCellsOfLastRow)
    /\ \A j \in DOMAIN employees :
         employees[j].id \in Elems(parse.lastDayNightShiftIds)
           <=> \E c \in NightColumns : CellNames(LastRowAt, c, employees[j])

\* the same on files whose rows are as exportToCSV writes them
C19_OnExportedRows == (pc = "parsed" /\ RowsAsExported) => C19_LastRowNight

\* ------------------------------------------------------------------------
\* C20
\* ------------------------------------------------------------------------
\* the cells of the columns cols, over all data rows, that name worker e
CellsNaming(cols, e) == {p \in DataRowsAt \X cols : CellNames(p[1], p[2], e)}

\* C20: in the returned HistoricalContext, for every pool worker the day
\* count is the number of day-column cells of the data rows that hold the
\* worker's name in any case, the night count the same for the night
\* columns, and total is their sum; other names change nothing.
C20_CountsOfCells ==
  pc = "parsed" =>
    \A j \in DOMAIN employees :
      LET s == parse.accumulatedStats[employees[j].id]
      IN /\ s.day = Cardinality(CellsNaming(DayColumns, employees[j]))
         /\ s.night = Cardinality(CellsNaming(NightColumns, employees[j]))
         /\ s.total = s.day + s.night

\* the same on files whose rows are as exportToCSV writes them
C20_OnExportedRows == (pc = "parsed" /\ RowsAsExported) => C20_CountsOfCells

\* ------------------------------------------------------------------------
\* C21
\* ------------------------------------------------------------------------
\* the key of the last day of the month before the target month
EveOfMonth ==
  IF month = 0 THEN <<year - 1, 12, 31>>
  ELSE <<year, month, KeyMonthLength(year, month)>>

\* the manual entries mark worker id on the night shift, and not on the day
\* shift, of the last day of the month before the target month
ManualNightOnEve(id) ==
  /\ manualHistory.present
  /\ EveOfMonth \in DOMAIN manualHistory.entries
  /\ id \in Elems(manualHistory.entries[EveOfMonth].nightShift)
  /\ id \notin Elems(manualHistory.entries[EveOfMonth].dayShift)

\* C21: a worker that the manual entries mark on the night shift, and not on
\* the day shift, of the last day of the month before the target month is
\* not on the day shift of the 1st of the target month when the 1st has no
\* manual entry, whatever the weekday of the 1st.
C21_ManualEveNight ==
  \A i \in Dates : \A id \in Ids(employees) :
    (/\ schedule[i].date = <<year, month + 1, 1>>
     /\ ~ManualAt(i)
     /\ ManualNightOnEve(id)) => ~OnDay(i, id)

\* the same for the months whose 1st is not a Sunday, so that the last day of
\* the month before is a date of the generated range
C21_WhenEveInRange ==
  KeyWeekday(<<year, month + 1, 1>>) # 0 => C21_ManualEveNight

\* a month whose 1st is not a Sunday, with a worker marked on the night of the
\* eve who is eligible for the day slot of the 1st but for the adjacency rule
C21_EveInRangeReached ==
  \E i \in Dates : \E k \in DOMAIN employees :
    /\ i > 1
    /\ schedule[i].date = <<year, month + 1, 1>>
    /\ ~ManualAt(i)
    /\ ManualNightOnEve(employees[k].id)
    /\ KeyWeekday(schedule[i].date) \notin employees[k].daysOff
    /\ Len(schedule[i].dayShift) < Reqs(config, KeyWeekday(schedule[i].date)).day

\* ------------------------------------------------------------------------
\* C22
\* ------------------------------------------------------------------------
\* worker e has a positive quota that its running total has reached, on the
\* running state before the step
QuotaMet(e) == e.targetShifts > 0 /\ stats[e.id].total >= e.targetShifts

\* the hard-eligible workers of a slot of the date being processed
EligibleFor(shiftType, excluded) ==
  {k \in DOMAIN employees : HardEligible(employees[k], shiftType, excluded)}

\* the workers of list, as positions in the pool
SelectedIn(list) == {k \in DOMAIN employees : employees[k].id \in Elems(list)}

\* in list, picked for a slot, a worker that has met its quota is taken only
\* when every eligible worker that has not is taken too
QuotaMetLast(list, shiftType, excluded) ==
  \A k \in SelectedIn(list) :
    QuotaMet(employees[k]) =>
      \A l \in EligibleFor(shiftType, excluded) :
        ~QuotaMet(employees[l]) => l \in SelectedIn(list)

\* C22: in every slot of a generated date, a worker whose positive quota is
\* already met is selected only if every hard-eligible worker that has not
\* met a quota (workers without quota included) is selected too; the quota
\* is no cap: a worker who has met it is still selected when the others do
\* not fill the slot.
C22_QuotaMetRanksLast ==
  [][GeneratesDate =>
       LET picked == schedule'[dayIndex']
       IN /\ QuotaMetLast(picked.dayShift, "DAY", ExcludedFromDay)
          /\ QuotaMetLast(picked.nightShift, "NIGHT", Elems(picked.dayShift))]_vars

\* the number of dates of the target month in the schedule so far on which
\* worker id is in a list
ShiftsThisMonth(id) ==
  Cardinality({i \in Dates : KeyInTarget(schedule[i].date) /\ (OnDay(i, id) \/ OnNight(i, id))})

\* a generated date of the month on which a worker works beyond its quota,
\* and an earlier generated date on which that worker, its quota met, is left
\* out while others work
C22_Witness ==
  \E k \in DOMAIN employees :
    LET e == employees[k]
    IN /\ e.targetShifts > 0
       /\ ShiftsThisMonth(e.id) > e.targetShifts
       /\ \E i \in Dates :
            /\ ~ManualAt(i)
            /\ KeyInTarget(schedule[i].date)
            /\ KeyWeekday(schedule[i].date) \notin e.daysOff
            /\ ~OnDay(i, e.id) /\ ~OnNight(i, e.id)
            /\ schedule[i].dayShift # <<>>
            /\ i > 1
            /\ ~OnDay(i - 1, e.id) /\ ~OnNight(i - 1, e.id)
            /\ Cardinality({j \in 1..(i - 1) :
                  KeyInTarget(schedule[j].date) /\ (OnDay(j, e.id) \/ OnNight(j, e.id))})
                 >= e.targetShifts

\* ------------------------------------------------------------------------
\* C23
\* ------------------------------------------------------------------------
\* C23: whenever the ranking takes a worker as having met its quota, the
\* worker has been assigned at least quota dates of the target month so far
\* in this run, also when the run is seeded with counts of a history.
C23_QuotaCountsThisMonth ==
  pc = "loop" =>
    \A k \in DOMAIN employees :
      QuotaMet(employees[k]) => ShiftsThisMonth(employees[k].id) >= employees[k].targetShifts

\* the same for the runs that are not seeded with counts
C23_WithoutSeededCounts ==
  (\A k \in DOMAIN employees : SeedStats(history, employees[k].id).total = 0)
    => C23_QuotaCountsThisMonth

\* a run without seeded counts in which a worker has met its quota
C23_QuotaMetReached ==
  /\ pc = "loop"
  /\ \A k \in DOMAIN employees : SeedStats(history, employees[k].id).total = 0
  /\ \E k \in DOMAIN employees : QuotaMet(employees[k])

\* ------------------------------------------------------------------------
\* C24
\* ------------------------------------------------------------------------
\* the date being processed, as a calendar date
ProcessedKey == formatDateKey(days[dayIndex + 1])

\* the number of days of the target month, by the calendar
DaysOfTargetMonth ==
  IF month + 1 \in {4, 6, 9, 11} THEN 30
  ELSE IF month + 1 # 2 THEN 31
  ELSE IF year % 4 = 0 /\ (year % 100 # 0 \/ year % 400 = 0) THEN 29
  ELSE 28

\* the position of the date being processed: its day of the month inside the
\* target month, 0 before the month, the number of days of the month after it
PacingPosition ==
  IF KeyInTarget(ProcessedKey) THEN ProcessedKey[3]
  ELSE IF ProcessedKey[1] < year \/ (ProcessedKey[1] = year /\ ProcessedKey[2] < month + 1) THEN 0
  ELSE DaysOfTargetMonth

\* the sign of (runningTotal - q * max(1, position) / daysInMonth) - bound / 5
\* in exact arithmetic, for the bounds -4/5 and 4/5
DiffAgainst(e, position, fifths) ==
  Sign(5 * DaysOfTargetMonth * stats[e.id].total
         - 5 * e.targetShifts * Max2(1, position)
         - fifths * DaysOfTargetMonth)

\* the pacing bucket: 1 urgent, 2 on-pace, 3 cool-down
BucketAt(e, position) ==
  IF e.targetShifts <= 0 THEN 2
  ELSE IF DiffAgainst(e, position, -4) < 0 THEN 1
  ELSE IF DiffAgainst(e, position, 4) > 0 THEN 3
  ELSE 2

\* the bucket the comparator computes, in doubles, for the date being processed
BucketInDoubles(e) ==
  CategoryOf(e, stats, PacingDayNum(days[dayIndex + 1], month, TotalDaysInMonth(year, month)),
             TotalDaysInMonth(year, month))

\* in list, picked for a slot, no worker of a later bucket is taken while an
\* eligible worker of an earlier bucket and of the same quota-met status is left out
BucketOrder(list, shiftType, excluded, position) ==
  \A k \in SelectedIn(list) :
    \A l \in EligibleFor(shiftType, excluded) \ SelectedIn(list) :
      QuotaMet(employees[k]) = QuotaMet(employees[l]) =>
        BucketAt(employees[k], position) <= BucketAt(employees[l], position)

\* C24: in every slot of a generated date, among the hard-eligible workers of
\* equal quota-met status, no worker of a later pacing bucket (urgent, on-pace,
\* cool-down, a difference of exactly -0.8 or 0.8 being on-pace) is selected
\* while an eligible worker of an earlier bucket is left out.
C24_PacingOrder ==
  [][GeneratesDate =>
       LET picked == schedule'[dayIndex']
       IN /\ BucketOrder(picked.dayShift, "DAY", ExcludedFromDay, PacingPosition)
          /\ BucketOrder(picked.nightShift, "NIGHT", Elems(picked.dayShift), PacingPosition)]_vars

\* the double difference of no eligible worker of the date being processed is
\* on the other side of -0.8 or 0.8 than the exact one
DoublesAreExact ==
  \A k \in DOMAIN employees :
    BucketInDoubles(employees[k]) = BucketAt(employees[k], PacingDayNum(days[dayIndex + 1], month, TotalDaysInMonth(year, month)))

\* the order holds on the dates of the target month where the doubles decide
\* as the exact differences do
C24_WhereDoublesAreExact ==
  [][(GeneratesDate /\ KeyInTarget(ProcessedKey) /\ DoublesAreExact) =>
       LET picked == schedule'[dayIndex']
       IN /\ BucketOrder(picked.dayShift, "DAY", ExcludedFromDay, ProcessedKey[3])
          /\ BucketOrder(picked.nightShift, "NIGHT", Elems(picked.dayShift), ProcessedKey[3])]_vars

\* a generated date of the month on which an urgent worker is taken for the
\* day slot and an eligible on-pace or cool-down worker is left out
C24_UrgentFirstReached ==
  /\ pc = "loop"
  /\ dayIndex >= 1
  /\ dayIndex < Len(days)
  /\ ~ManualAt(dayIndex)
  /\ KeyInTarget(schedule[dayIndex].date)
  /\ \E k, l \in DOMAIN employees :
       LET a == employees[k]
           b == employees[l]
           d == schedule[dayIndex].date[3]
           Before(e) == stats[e.id].total - (IF OnDay(dayIndex, e.id) \/ OnNight(dayIndex, e.id) THEN 1 ELSE 0)
           Urgent(e) == e.targetShifts > 0 /\ 5 * DaysOfTargetMonth * Before(e) - 5 * e.targetShifts * d < -(4 * DaysOfTargetMonth)
       IN /\ OnDay(dayIndex, a.id)
          /\ ~OnDay(dayIndex, b.id)
          /\ OnNight(dayIndex, b.id)
          /\ b.preference = "EITHER"
          /\ KeyWeekday(schedule[dayIndex].date) \notin b.daysOff
          /\ Urgent(a)
          /\ ~Urgent(b)
          /\ Before(a) > Before(b)

\* ------------------------------------------------------------------------
\* C25
\* ------------------------------------------------------------------------
\* a date of the range is about to be processed
AtDate == pc = "loop" /\ dayIndex < Len(days)

\* the position the loop passes to pickWorkers for the date being processed
PositionUsed == PacingDayNum(days[dayIndex + 1], month, TotalDaysInMonth(year, month))

\* C25: on every date of the range the pacing position passed to the ranking
\* is the day of the month inside the target month, 0 on the padding dates
\* before the month and the number of days of the month on the padding dates
\* after it, for every target month, January and December included.
C25_PacingPosition == AtDate => PositionUsed = PacingPosition

\* the same for the ranges that lie within one calendar year
C25_WithinOneYear ==
  (AtDate /\ \A i \in DOMAIN days : getFullYear(days[i]) = year) => PositionUsed = PacingPosition

\* a padding date before and a padding date after a month, in a range within
\* one calendar year
C25_LeadingReached ==
  /\ AtDate
  /\ \A i \in DOMAIN days : getFullYear(days[i]) = year
  /\ PacingPosition = 0

C25_TrailingReached ==
  /\ AtDate
  /\ \A i \in DOMAIN days : getFullYear(days[i]) = year
  /\ ~KeyInTarget(ProcessedKey)
  /\ PacingPosition = DaysOfTargetMonth

\* ------------------------------------------------------------------------
\* C26
\* ------------------------------------------------------------------------
\* the score of worker e for a slot: the running total, less 2 for a worker
\* of preference EITHER on a day slot when distributeDayShiftsToEither is set
SlotScore(e, shiftType) ==
  stats[e.id].total
    - (IF e.preference = "EITHER" /\ shiftType = "DAY" /\ config.distributeDayShiftsToEither
         THEN 2 ELSE 0)

\* in list, picked for a slot, a worker is taken only when every eligible
\* worker of the same quota-met status, the same bucket and a strictly lower
\* score is taken too; Bucket(e) is the bucket of worker e
ScoreOrder(list, shiftType, excluded, bucket) ==
  \A k \in SelectedIn(list) :
    \A l \in EligibleFor(shiftType, excluded) \ SelectedIn(list) :
      (/\ QuotaMet(employees[k]) = QuotaMet(employees[l])
       /\ bucket[k] = bucket[l])
        => SlotScore(employees[l], shiftType) >= SlotScore(employees[k], shiftType)

\* the buckets of the workers by the exact differences, and as the comparator
\* computes them
ExactBuckets == [k \in DOMAIN employees |-> BucketAt(employees[k], PacingPosition)]

DoubleBuckets == [k \in DOMAIN employees |-> BucketInDoubles(employees[k])]

\* C26: in every slot of a generated date, among the hard-eligible workers
\* equal on quota-met status and pacing bucket, a worker is selected only if
\* every such worker with a strictly lower score is selected too; the score
\* is the running total, less 2 for a worker of preference EITHER exactly on
\* a day slot with distributeDayShiftsToEither set, never on a night slot.
C26_LowerScoreFirst ==
  [][GeneratesDate =>
       LET picked == schedule'[dayIndex']
       IN /\ ScoreOrder(picked.dayShift, "DAY", ExcludedFromDay, ExactBuckets)
          /\ ScoreOrder(picked.nightShift, "NIGHT", Elems(picked.dayShift), ExactBuckets)]_vars

\* the same with the buckets the comparator computes
C26_WithinComputedBuckets ==
  [][GeneratesDate =>
       LET picked == schedule'[dayIndex']
       IN /\ ScoreOrder(picked.dayShift, "DAY", ExcludedFromDay, DoubleBuckets)
          /\ ScoreOrder(picked.nightShift, "NIGHT", Elems(picked.dayShift), DoubleBuckets)]_vars

\* the 6th of a month of 30 days is processed: the day slot went to a worker
\* with 2 shifts of a quota of 14, and a worker without quota and with a
\* lower total, eligible for the day slot, got the night slot
C26_HigherScoreTaken ==
  /\ pc = "loop"
  /\ dayIndex >= 1
  /\ ~ManualAt(dayIndex)
  /\ KeyInTarget(schedule[dayIndex].date)
  /\ schedule[dayIndex].date[3] = 6
  /\ DaysOfTargetMonth = 30
  /\ ~config.distributeDayShiftsToEither
  /\ \E k, l \in DOMAIN employees :
       /\ employees[k].targetShifts = 14
       /\ employees[l].targetShifts = 0
       /\ schedule[dayIndex].dayShift = <<employees[k].id>>
       /\ schedule[dayIndex].nightShift = <<employees[l].id>>
       /\ stats[employees[k].id].total = 3
       /\ stats[employees[l].id].total = 2
       /\ lastShiftType[employees[l].id] = "NIGHT"
       /\ consecutiveDays[employees[l].id] = 1

\* a day slot with distributeDayShiftsToEither set on which a worker of
\* preference EITHER is taken ahead of an eligible worker of a lower total
C26_BonusReached ==
  /\ pc = "loop"
  /\ dayIndex >= 1
  /\ ~ManualAt(dayIndex)
  /\ config.distributeDayShiftsToEither
  /\ KeyInTarget(schedule[dayIndex].date)
  /\ \E k, l \in DOMAIN employees :
       LET a == employees[k]
           b == employees[l]
           Before(e) == stats[e.id].total - (IF OnDay(dayIndex, e.id) \/ OnNight(dayIndex, e.id) THEN 1 ELSE 0)
       IN /\ a.preference = "EITHER"
          /\ b.preference = "DAY_ONLY"
          /\ OnDay(dayIndex, a.id)
          /\ ~OnDay(dayIndex, b.id)
          /\ KeyWeekday(schedule[dayIndex].date) \notin b.daysOff
          /\ Before(b) < Before(a)
          /\ Before(b) > Before(a) - 2

\* ------------------------------------------------------------------------
\* C27
\* ------------------------------------------------------------------------
\* the running count of worker e for the shift type of a slot
SlotTypeCount(e, shiftType) ==
  IF shiftType = "DAY" THEN stats[e.id].day ELSE stats[e.id].night

\* in list, picked for a slot, a worker of preference EITHER is not taken
\* while an eligible worker of preference EITHER, tied with it on quota-met
\* status, bucket and score, and with a smaller count of the slot's shift
\* type, is left out
TypeCountOrder(list, shiftType, excluded, bucket) ==
  \A k \in SelectedIn(list) :
    \A l \in EligibleFor(shiftType, excluded) \ SelectedIn(list) :
      (/\ employees[k].preference = "EITHER"
       /\ employees[l].preference = "EITHER"
       /\ QuotaMet(employees[k]) = QuotaMet(employees[l])
       /\ bucket[k] = bucket[l]
       /\ SlotScore(employees[k], shiftType) = SlotScore(employees[l], shiftType))
        => SlotTypeCount(employees[l], shiftType) >= SlotTypeCount(employees[k], shiftType)

\* C27: in every slot of a generated date, of two hard-eligible workers of
\* preference EITHER tied on quota-met status, pacing bucket and score, the
\* one with the smaller running count of the slot's shift type (day count for
\* a day slot, night count for a night slot) is selected first: the other is
\* never selected while it is left out.
C27_FewerOfThisTypeFirst ==
  [][GeneratesDate =>
       LET picked == schedule'[dayIndex']
       IN /\ TypeCountOrder(picked.dayShift, "DAY", ExcludedFromDay, ExactBuckets)
          /\ TypeCountOrder(picked.nightShift, "NIGHT", Elems(picked.dayShift), ExactBuckets)]_vars

\* the same with the buckets the comparator computes
C27_WithinComputedBuckets ==
  [][GeneratesDate =>
       LET picked == schedule'[dayIndex']
       IN /\ TypeCountOrder(picked.dayShift, "DAY", ExcludedFromDay, DoubleBuckets)
          /\ TypeCountOrder(picked.nightShift, "NIGHT", Elems(picked.dayShift), DoubleBuckets)]_vars

\* a generated day slot of the month on which two eligible workers of
\* preference EITHER are tied on quota-met status, computed bucket and total,
\* and the one with fewer day shifts is taken and the other is not
C27_Witness ==
  /\ pc = "loop"
  /\ dayIndex >= 2
  /\ ~ManualAt(dayIndex)
  /\ KeyInTarget(schedule[dayIndex].date)
  /\ Len(schedule[dayIndex].dayShift) = 1
  /\ \E k, l \in DOMAIN employees :
       LET a == employees[k]
           b == employees[l]
           d == schedule[dayIndex].date[3]
           AssignedNow(e) == OnDay(dayIndex, e.id) \/ OnNight(dayIndex, e.id)
           TotalBefore(e) == stats[e.id].total - (IF AssignedNow(e) THEN 1 ELSE 0)
           DayBefore(e) == stats[e.id].day - (IF OnDay(dayIndex, e.id) THEN 1 ELSE 0)
       IN /\ a.preference = "EITHER"
          /\ b.preference = "EITHER"
          /\ a.targetShifts = 0
          /\ b.targetShifts = 0
          /\ OnDay(dayIndex, a.id)
          /\ ~OnDay(dayIndex, b.id)
          /\ OnNight(dayIndex, b.id)
          /\ KeyWeekday(schedule[dayIndex].date) \notin b.daysOff
          /\ ~OnNight(dayIndex - 1, b.id)
          /\ TotalBefore(a) = TotalBefore(b)
          /\ DayBefore(a) < DayBefore(b)

\* ------------------------------------------------------------------------
\* C28
\* ------------------------------------------------------------------------
\* worker id is in a list of the date just processed
AssignedOn(entry, id) == id \in Elems(entry.dayShift) \/ id \in Elems(entry.nightShift)

\* the running counts of worker id grow by one shift of the date just processed
CountedOnce(entry, id) ==
  /\ stats'[id].total = stats[id].total + 1
  /\ stats'[id].day + stats'[id].night = stats[id].day + stats[id].night + 1
  /\ stats'[id].day \in {stats[id].day, stats[id].day + 1}
  /\ stats'[id].night \in {stats[id].night, stats[id].night + 1}

\* work history, counter and last shift of an assigned worker follow the date
\* just processed
ConstraintsUpdated(entry, id) ==
  /\ workHistory'[id] = workHistory[id] \cup {entry.date}
  /\ consecutiveDays'[id] = consecutiveDays[id] + 1
  /\ lastShiftType'[id] \in {"DAY", "NIGHT"}

\* C28: processing a padding date leaves the running day, night and total
\* counts of every worker unchanged while the work history, the consecutive
\* counter and the last shift of the assigned workers are updated; processing
\* a date of the target month adds exactly 1 to the running total of every
\* worker assigned on it (and 1 to its day or its night count) and nothing to
\* the counts of the others.
C28_CountsOnlyInMonth ==
  [][ProcessesDate =>
       LET entry == schedule'[dayIndex']
       IN \A id \in Ids(employees) :
            /\ AssignedOn(entry, id) => ConstraintsUpdated(entry, id)
            /\ IF KeyInTarget(entry.date) /\ AssignedOn(entry, id)
                 THEN CountedOnce(entry, id)
                 ELSE stats'[id] = stats[id]]_vars

\* the last date processed is a padding date after the month on which a
\* worker, assigned on it and on the date before, has one shift more in a row
\* and no more shifts counted than it has in the month
C28_Witness ==
  /\ pc = "loop"
  /\ dayIndex >= 2
  /\ ~KeyInTarget(schedule[dayIndex].date)
  /\ KeyInTarget(schedule[dayIndex - 1].date)
  /\ \E id \in Ids(employees) :
       /\ OnNight(dayIndex, id)
       /\ OnDay(dayIndex - 1, id)
       /\ consecutiveDays[id] >= 2
       /\ lastShiftType[id] = "NIGHT"
       /\ schedule[dayIndex].date \in workHistory[id]
       /\ stats[id].total = ShiftsThisMonth(id) + SeedStats(history, id).total
       /\ stats[id].total >= 1

\* ------------------------------------------------------------------------
\* C29
\* ------------------------------------------------------------------------
\* exportToCSV: one row for every entry of the schedule, padding included, in
\* the order of the schedule; the date of each row
ExportedDates(sch) == [i \in DOMAIN sch |-> sch[i].date]

\* parsePastScheduleCSV: the row whose night cells become
\* lastDayNightShiftIds, and after which consecutiveDays is returned, is the
\* last line of the file
LastImportedDate(rows) == rows[Len(rows)]

\* the first date of the range generated for the month after the target month
FirstDateOfNextRange == formatDateKey(getFullWeeksRange(year, month + 1)[1])

\* C29: when the schedule returned for month M is exported, imported as a
\* history and used to generate month M+1, the last row of the history is the
\* calendar day before the first date of the range generated for M+1.
C29_HistoryEndsOnEve ==
  pc = "done" =>
    KeyAfter(LastImportedDate(ExportedDates(schedule))) = FirstDateOfNextRange

\* the same for the months whose last day is a Saturday
C29_WhenMonthEndsOnSaturday ==
  (pc = "done" /\ KeyWeekday(<<year, month + 1, DaysOfTargetMonth>>) = 6) =>
    KeyAfter(LastImportedDate(ExportedDates(schedule))) = FirstDateOfNextRange

\* a schedule returned for a month whose last day is a Saturday, and for
\* December of such a year
C29_SaturdayEndReached ==
  /\ pc = "done"
  /\ KeyWeekday(<<year, month + 1, DaysOfTargetMonth>>) = 6
  /\ month = 11

\* the last row of the history is the Saturday that ends the first week of
\* the range generated for M+1 in every other month
C29_LastRowInsideNextRange ==
  (pc = "done" /\ KeyWeekday(<<year, month + 1, DaysOfTargetMonth>>) # 6) =>
    /\ LastImportedDate(ExportedDates(schedule)) = formatDateKey(getFullWeeksRange(year, month + 1)[7])
    /\ KeyInNextMonth(LastImportedDate(ExportedDates(schedule)))

\* ------------------------------------------------------------------------
\* C30
\* ------------------------------------------------------------------------
\* after the date being processed, a worker not assigned on it has counter 0
\* and no last shift
RestResets ==
  \A id \in Ids(employees) :
    ~AssignedOn(schedule'[dayIndex'], id) =>
      consecutiveDays'[id] = 0 /\ lastShiftType'[id] = "null"

\* a worker the cap excludes from the date being processed is not excluded by
\* the cap from the next one
CapLiftedNextDate ==
  \A k \in DOMAIN employees :
    ~BelowMaxConsecutive(employees[k], consecutiveDays)
      => /\ ~AssignedOn(schedule'[dayIndex'], employees[k].id)
         /\ BelowMaxConsecutive(employees[k], consecutiveDays')

\* a worker who is in no list of the date before the date being processed
\* passes the adjacency test of the day slot
RestedPassAdjacency ==
  (AtDate /\ dayIndex >= 1) =>
    \A k \in DOMAIN employees :
      ~AssignedOn(schedule[dayIndex], employees[k].id) =>
        NoDayAfterNight(employees[k], days[dayIndex + 1], "DAY", workHistory, lastShiftType)

\* C30: after a date on which a worker is not assigned its consecutive
\* counter is 0 and its last shift is none; so a worker the cap excludes from
\* a generated date is not excluded by the cap from the next date, and a
\* worker who rested on D-1 is not excluded from the day shift of D by the
\* adjacency rule.
C30_RestResets ==
  /\ [][ProcessesDate => RestResets]_vars
  /\ [][GeneratesDate => CapLiftedNextDate]_vars
  /\ []RestedPassAdjacency

\* a worker with shifts on five dates in a row, the last one a night shift,
\* is left out of the next date, a generated date that is not one of its
\* days off, and takes the day shift of the date after, a generated date too
C30_Witness ==
  /\ pc = "loop"
  /\ dayIndex >= 7
  /\ ~ManualAt(dayIndex)
  /\ ~ManualAt(dayIndex - 1)
  /\ \E k \in DOMAIN employees :
       LET e == employees[k]
       IN /\ \A i \in (dayIndex - 6)..(dayIndex - 2) : OnDay(i, e.id) \/ OnNight(i, e.id)
          /\ ~OnDay(dayIndex - 1, e.id)
          /\ ~OnNight(dayIndex - 1, e.id)
          /\ KeyWeekday(schedule[dayIndex - 1].date) \notin e.daysOff
          /\ OnNight(dayIndex - 2, e.id)
          /\ OnDay(dayIndex, e.id)
          /\ consecutiveDays[e.id] = 1

\* ------------------------------------------------------------------------
\* C31
\* ------------------------------------------------------------------------
NoCounts == [day |-> 0, night |-> 0, total |-> 0]

\* the state in which generateSchedule has initialised its maps from a history
SeededFromHistory == pc = "loop" /\ dayIndex = 0 /\ history.present

\* every worker of the pool has running counts and a counter, zero where the
\* history has no entry for the worker
MissingEntriesAreZero ==
  /\ DOMAIN stats = Ids(employees)
  /\ DOMAIN consecutiveDays = Ids(employees)
  /\ \A id \in Ids(employees) :
       /\ id \notin DOMAIN history.accumulatedStats => stats[id] = NoCounts
       /\ id \notin DOMAIN history.consecutiveDaysEnding => consecutiveDays[id] = 0

\* the context returned by the parser has an entry in both maps for every
\* worker of the pool it was given, zero for a worker no row names
ParserCoversPool ==
  /\ DOMAIN parse.accumulatedStats = Ids(employees)
  /\ DOMAIN parse.consecutiveDays = Ids(employees)
  /\ \A k \in DOMAIN employees :
       (\A r \in DataRowsAt : ~AppearsIn(r, employees[k]))
         => /\ parse.accumulatedStats[employees[k].id] = NoCounts
            /\ parse.consecutiveDays[employees[k].id] = 0

\* C31: generateSchedule called with a history that has no entry for a worker
\* of the pool takes that worker with zero day, night and total counts and a
\* zero counter, and runs to its return; parsePastScheduleCSV returns an
\* entry in both maps, zero by default, for every worker of its pool.
C31_EveryWorkerHasEntry ==
  /\ [](SeededFromHistory => MissingEntriesAreZero)
  /\ [](pc = "parsed" => ParserCoversPool)
  /\ []((pc \in {"call", "loop"} /\ history.present) => CanStep)
  /\ [](pc = "done" => Returned)

\* a schedule returned for a pool with a worker added after the import: the
\* history has no entry for it, it was seeded with zero and it has shifts
C31_Witness ==
  /\ pc = "done"
  /\ history.present
  /\ NewWorker.id \in Ids(employees)
  /\ NewWorker.id \notin DOMAIN history.accumulatedStats
  /\ NewWorker.id \notin DOMAIN history.consecutiveDaysEnding
  /\ \E id \in DOMAIN history.accumulatedStats : history.accumulatedStats[id].total > 0
  /\ finalStats[NewWorker.id].totalShifts > 0

\* ------------------------------------------------------------------------
\* C32
\* ------------------------------------------------------------------------
\* the dates of the month on which worker id is in a list of the version
MonthDatesOf(id) ==
  {i \in Dates : KeyInTarget(schedule[i].date) /\ (OnDay(i, id) \/ OnNight(i, id))}

\* the stats of every worker are the counts of its dates of the month
StatsAreDateCounts ==
  \A id \in Ids(employees) :
    /\ finalStats[id].totalShifts = Cardinality(MonthDatesOf(id))
    /\ finalStats[id].dayShifts + finalStats[id].nightShifts = finalStats[id].totalShifts

\* C32: after any sequence of manual additions to a generated version, for
\* every worker totalShifts is the number of dates of the month on which the
\* worker is in either list of the version, and dayShifts + nightShifts =
\* totalShifts.
C32_StatsFollowAdditions == pc = "done" => StatsAreDateCounts

\* the number of places worker id has in the lists of the i-th date
PlacesOn(i, id) ==
  Cardinality({k \in DOMAIN schedule[i].dayShift : schedule[i].dayShift[k] = id})
    + Cardinality({k \in DOMAIN schedule[i].nightShift : schedule[i].nightShift[k] = id})

\* no worker has two places on a date of the version
OnePlacePerDate == \A i \in Dates : \A id \in Ids(employees) : PlacesOn(i, id) <= 1

\* the same for the versions in which no worker has two places on a date
C32_WhenOnePlacePerDate == (pc = "done" /\ OnePlacePerDate) => StatsAreDateCounts

\* a version to which two workers were added, each on a date of the month it
\* was not on: their totals are above the ones the generation counted and no
\* worker has two places on a date
C32_AdditionsReached ==
  /\ pc = "done"
  /\ OnePlacePerDate
  /\ \E a, b \in Ids(employees) :
       /\ a # b
       /\ finalStats[a].totalShifts > stats[a].total
       /\ finalStats[b].totalShifts > stats[b].total

\* ------------------------------------------------------------------------
\* C33
\* ------------------------------------------------------------------------
\* a step of the simpler generator that processes a date
SimpleProcessesDate == pc = "loop" /\ dayIndex' = dayIndex + 1

\* the date of the richer generator's range at the index being processed
RichDate == getFullWeeksRange(year, month)[dayIndex + 1]

\* the running history of the richer generator at the same point of the
\* run: the dates worked so far, under the keys of formatDateKey
RichWorkHistory(east) ==
  [id \in Ids(employees) |->
     IF east THEN {KeyAfter(k) : k \in workHistory[id]} ELSE workHistory[id]]

\* the pairs <<day list, night list>> the richer generator can assign on the
\* date from that state
RichOutcomes(east) ==
  LET totalDaysInMonth == TotalDaysInMonth(year, month)
      pacingDayNum == PacingDayNum(RichDate, month, totalDaysInMonth)
      Pick(count, shiftType, excludeIds, prioritize) ==
        pickWorkers(employees, count, RichDate, pacingDayNum, totalDaysInMonth, shiftType,
                    RichWorkHistory(east), lastShiftType, consecutiveDays, stats,
                    excludeIds, prioritize)
      reqs == Reqs(config, getDay(RichDate))
  IN UNION { { <<dp.ids, np.ids>> : np \in Pick(reqs.night, "NIGHT", dp.ids, FALSE) } :
             dp \in Pick(reqs.day, "DAY", ForbiddenDayWorkers(dayIndex, history),
                         config.distributeDayShiftsToEither) }

\* the pairs the simpler generator can assign on its date
SimpleOutcomes(east) ==
  LET dayDate == days[dayIndex + 1]
      Pick(count, shiftType, excludeIds, prioritize) ==
        SimplePickWorkers(employees, count, dayDate, shiftType, workHistory, lastShiftType,
                          consecutiveDays, stats, excludeIds, prioritize, east)
      reqs == Reqs(config, getDay(dayDate))
  IN UNION { { <<dp.ids, np.ids>> : np \in Pick(reqs.night, "NIGHT", dp.ids, FALSE) } :
             dp \in Pick(reqs.day, "DAY", ForbiddenDayWorkers(dayIndex, history),
                         config.distributeDayShiftsToEither) }

\* the two generators are at the same date of the month, can assign the same
\* lists on it, and the lists assigned are among them; the counts of the
\* richer generator take the date as one of the month
SameLists(east) ==
  /\ RichDate = days[dayIndex + 1]
  /\ IsTargetMonth(RichDate, year, month)
  /\ RichOutcomes(east) = SimpleOutcomes(east)
  /\ <<schedule'[dayIndex + 1].dayShift, schedule'[dayIndex + 1].nightShift>>
       \in RichOutcomes(east)

\* the entry of the simpler generator carries the date the richer one gives it
SameDate == schedule'[dayIndex + 1].date = formatDateKey(RichDate)

\* C33: with no quotas, no manual overrides, the same history and a month
\* whose 1st is a Sunday, every entry of the simpler generator is an entry
\* the richer generator gives to the same date of the month, with the same
\* day and night lists when the ties are resolved identically.
C33_SimpleIsRestriction ==
  [][SimpleProcessesDate => (SameLists(East') /\ SameDate)]_vars

\* the same for the lists alone, entry by entry, whatever the time zone
C33_SameListsEntryByEntry == [][SimpleProcessesDate => SameLists(East')]_vars

\* the same, dates included, in the time zones at or west of Greenwich
C33_AtOrWestOfGreenwich ==
  [][(SimpleProcessesDate /\ ~East') => (SameLists(FALSE) /\ SameDate)]_vars

\* a run of the simpler generator east of Greenwich that returned, and one
\* at or west of Greenwich that took a random answer of the comparator
C33_EastReached == pc = "done" /\ East /\ Len(schedule) = Len(days)

C33_WestRandomReached == pc = "done" /\ ~East /\ randomSwaps > 0 /\ history.present

\* ------------------------------------------------------------------------
\* C34
\* ------------------------------------------------------------------------
\* worker id is in a list of each of the six dates ending at the i-th
SixInARow(i, id) == i >= 6 /\ \A j \in (i - 5)..i : OnDay(j, id) \/ OnNight(j, id)

\* C34: when no manual overrides are supplied, no worker is in the lists of
\* 6 consecutive dates of the output sequence, and in the returned version
\* every worker's longestStreak is at most 5, whatever the pool, the
\* requirements, the month and the history.
C34_StreakAtMostFive ==
  ~manualHistory.present =>
    /\ \A i \in Dates : \A id \in Ids(employees) : ~SixInARow(i, id)
    /\ pc = "done" => \A id \in Ids(employees) : finalStats[id].longestStreak <= MaxConsecutive

\* a version returned without manual overrides, with a history, in which a
\* worker has a streak of 5 dates followed by a date of rest
C34_Witness ==
  /\ pc = "done"
  /\ ~manualHistory.present
  /\ history.present
  /\ \E id \in Ids(employees) :
       /\ finalStats[id].longestStreak = MaxConsecutive
       /\ \E i \in Dates :
            /\ i >= 6
            /\ \A j \in (i - 5)..(i - 1) : OnDay(j, id) \/ OnNight(j, id)
            /\ ~OnDay(i, id) /\ ~OnNight(i, id)

\* ------------------------------------------------------------------------
\* C35
\* ------------------------------------------------------------------------
AllEither == \A k \in DOMAIN employees : employees[k].preference = "EITHER"

\* the loop is at a date whose lists pickWorkers makes
Generating ==
  /\ pc = "loop"
  /\ dayIndex < Len(days)
  /\ ~HasManualEntry(manualHistory, formatDateKey(days[dayIndex + 1]))

\* the candidates of a slot of the date being processed
SlotCandidates(shiftType, excludeIds) ==
  Candidates(employees, days[dayIndex + 1], shiftType, workHistory, lastShiftType,
             consecutiveDays, excludeIds)

\* the comparator on two candidates of the slot
SlotCompare(a, b, shiftType, prioritizeEitherForDay) ==
  Compare(a, b, stats,
          PacingDayNum(days[dayIndex + 1], month, TotalDaysInMonth(year, month)),
          TotalDaysInMonth(year, month), shiftType, prioritizeEitherForDay)

\* no two candidates of the slot are compared by Math.random, and the slot
\* has one outcome, the one of the stable sort
OneOutcome(count, shiftType, excludeIds, prioritizeEitherForDay) ==
  /\ \A a, b \in Elems(SlotCandidates(shiftType, excludeIds)) :
       SlotCompare(a, b, shiftType, prioritizeEitherForDay).tier # 5
  /\ Cardinality(PickForSlot(count, shiftType, excludeIds, prioritizeEitherForDay)) = 1
  /\ \A p \in PickForSlot(count, shiftType, excludeIds, prioritizeEitherForDay) : ~p.random

\* C35: for a pool in which every worker has preference EITHER the random
\* tie-break is never reached, so with a stable sort every date has one
\* possible day list and one possible night list: two runs on the same
\* inputs produce the same lists on every date and the same stats.
C35_AllEitherIsDeterministic ==
  AllEither =>
    /\ randomSwaps = 0
    /\ Generating =>
         LET reqs == Reqs(config, getDay(days[dayIndex + 1]))
             forbidden == ForbiddenDayWorkers(dayIndex, history)
         IN /\ OneOutcome(reqs.day, "DAY", forbidden, config.distributeDayShiftsToEither)
            /\ \A dp \in PickForSlot(reqs.day, "DAY", forbidden,
                                     config.distributeDayShiftsToEither) :
                 OneOutcome(reqs.night, "NIGHT", dp.ids, FALSE)
    /\ pc = "done" => finalStats = [id \in Ids(employees) |-> FinalStatsOf(schedule, id)]

\* a date at which two candidates of the day slot are tied on every tier and
\* the slot takes fewer workers than there are candidates: the order of the
\* pool decides
C35_TieReached ==
  /\ AllEither
  /\ Generating
  /\ LET reqs == Reqs(config, getDay(days[dayIndex + 1]))
         forbidden == ForbiddenDayWorkers(dayIndex, history)
         cands == SlotCandidates("DAY", forbidden)
     IN /\ reqs.day > 0
        /\ reqs.day < Len(cands)
        /\ \E i, j \in DOMAIN cands :
             /\ i < j
             /\ SlotCompare(cands[i], cands[j], "DAY",
                            config.distributeDayShiftsToEither).tier = 4
             /\ SlotCompare(cands[i], cands[j], "DAY",
                            config.distributeDayShiftsToEither).signs = {0}
             /\ \A p \in PickForSlot(reqs.day, "DAY", forbidden,
                                     config.distributeDayShiftsToEither) :
                  Includes(p.ids, cands[i].id) /\ ~Includes(p.ids, cands[j].id)

\* ------------------------------------------------------------------------
\* C36
\* ------------------------------------------------------------------------
\* the dates of the month on which worker id is in the dayShift list, and
\* those on which it is in the nightShift list
DayDates(id) == {i \in Dates : ~schedule[i].isPadding /\ OnDay(i, id)}

NightDates(id) == {i \in Dates : ~schedule[i].isPadding /\ OnNight(i, id)}

\* C36 as stated: for every worker dayShifts is the number of non-padding
\* dates on which the worker is in the dayShift list and nightShifts the
\* number of non-padding dates on which it is in the nightShift list, manual
\* overrides included.
C36_Original ==
  pc = "done" =>
    \A id \in Ids(employees) :
      /\ finalStats[id].dayShifts = Cardinality(DayDates(id))
      /\ finalStats[id].nightShifts = Cardinality(NightDates(id))

\* C36 amended: dayShifts is the number of non-padding dates on which the
\* worker is in the dayShift list, and nightShifts the number of non-padding
\* dates on which it is in the nightShift list and not in the dayShift list:
\* a date on which a manual override lists the worker on both shifts counts
\* as a day shift only.
C36_DayAndNightCounts ==
  pc = "done" =>
    \A id \in Ids(employees) :
      /\ finalStats[id].dayShifts = Cardinality(DayDates(id))
      /\ finalStats[id].nightShifts = Cardinality(NightDates(id) \ DayDates(id))

\* a returned version in which a manual override lists a worker on both
\* shifts of a date of the month, the worker having night shifts of its own
\* on other dates
C36_Witness ==
  /\ pc = "done"
  /\ \E id \in Ids(employees) :
       /\ \E i \in DayDates(id) \cap NightDates(id) : ManualAt(i)
       /\ finalStats[id].nightShifts > 0
       /\ finalStats[id].nightShifts < Cardinality(NightDates(id))

\* ------------------------------------------------------------------------
\* C37
\* ------------------------------------------------------------------------
\* a version is displayed exactly when the list is not empty, and it is one
\* of the list
DisplayedIsListed ==
  /\ (CurrentVersion # NoVersion) <=> (versions # <<>>)
  /\ CurrentVersion # NoVersion => \E i \in DOMAIN versions : versions[i] = CurrentVersion

\* a generate that succeeded: the new version is the head of the list, in
\* front of the former list, and is the one displayed
GenerateAddsHead ==
  (pc = "done" /\ pc' = "ready") =>
    /\ Len(versions') = Len(versions) + 1
    /\ Tail(versions') = versions
    /\ versions'[1].schedule = schedule /\ versions'[1].stats = finalStats
    /\ selectedVersionId' = versions'[1].id
    /\ FindVersion(versions', selectedVersionId') = 1
    /\ CurrentVersion' = versions'[1]

\* with an empty worker list no call of generateSchedule starts and no step
\* adds a version
EmptyPoolAddsNone ==
  Len(employees) = 0 => (pc' = pc /\ Len(versions') <= Len(versions))

\* C37: after any sequence of generate, select-version and delete-version a
\* version is displayed if and only if the list of versions is not empty,
\* the displayed version is a member of the list, a successful generate
\* makes the new version the head of the list and the displayed one, and a
\* generate with an empty worker list adds no version.
C37_DisplayedVersion ==
  /\ []DisplayedIsListed
  /\ [][GenerateAddsHead]_vars
  /\ [][EmptyPoolAddsNone]_vars

\* the selected id is the one of a deleted version while another version is
\* left and displayed, and the worker list has been emptied: the generate
\* button has just sent the user back to the workers tab
C37_Witness ==
  /\ Len(versions) = 1
  /\ selectedVersionId # "null"
  /\ FindVersion(versions, selectedVersionId) = 0
  /\ CurrentVersion = versions[1]
  /\ Len(employees) = 0
  /\ tab = "workers"
  /\ pc = "ready"

====
